---------------------------- MODULE Spec2Model ----------------------------
(***************************************************************************)
(* A model of the streaming translation layer of pi-cursor-provider        *)
(* (src/index.ts): one invocation of streamCursorCli, the callbacks of its *)
(* subprocess (stdout lines, stderr chunks, 'error', 'close'), the abort   *)
(* signal, and the events it pushes on the assistant-message event stream. *)
(*                                                                         *)
(* Text is modelled by TLA+ strings.  A stdout line is the text of the     *)
(* line; parseLine trims it and decodes it with a JSON decoder written out *)
(* below for the subset of JSON the input lines use (objects, arrays,      *)
(* strings with the escapes \" \\ \n, non-negative integers, true, false,  *)
(* null, blanks between tokens).                                           *)
(***************************************************************************)
EXTENDS Integers, Sequences, FiniteSets, TLC

(***************************************************************************)
(* Bounds of the model.                                                    *)
(***************************************************************************)
MaxLines == 3
MaxStderr == 1
MaxData == 2
MaxSpawns == 2

(***************************************************************************)
(* Strings.                                                                *)
(***************************************************************************)
Ch(s, i) == SubSeq(s, i, i)

\* The characters String.prototype.trim removes (those the inputs use).
IsTrimSpace(c) == c \in {" ", "\t", "\n", "\r"}

RECURSIVE TrimStart(_)
TrimStart(s) ==
  IF Len(s) > 0 /\ IsTrimSpace(Ch(s, 1)) THEN TrimStart(Tail(s)) ELSE s

RECURSIVE TrimEnd(_)
TrimEnd(s) ==
  IF Len(s) > 0 /\ IsTrimSpace(Ch(s, Len(s)))
  THEN TrimEnd(SubSeq(s, 1, Len(s) - 1))
  ELSE s

\* String.prototype.trim
Trim(s) == TrimEnd(TrimStart(s))

RECURSIVE JoinChunks(_)
\* Array.prototype.join("")
JoinChunks(chunks) ==
  IF chunks = <<>> THEN "" ELSE Head(chunks) \o JoinChunks(Tail(chunks))

Digits == <<"0", "1", "2", "3", "4", "5", "6", "7", "8", "9">>
IsDigit(c) == \E d \in 1..Len(Digits) : Digits[d] = c

RECURSIVE NatToStr(_)
\* String(n) for a non-negative integer n
NatToStr(n) ==
  IF n < Len(Digits) THEN Digits[n + 1]
  ELSE NatToStr(n \div Len(Digits)) \o Digits[(n % Len(Digits)) + 1]

(***************************************************************************)
(* JavaScript values, as JSON.parse builds them.  An object keeps its      *)
(* members in insertion order (Object.keys relies on it).                  *)
(***************************************************************************)
Undefined == [k |-> "undefined"]
\* In place of a result: the evaluation threw.
Raised == [k |-> "raised"]
JNull == [k |-> "null"]
JBool(b) == [k |-> "bool", v |-> b]
JNum(digits) == [k |-> "num", v |-> digits]
JStr(s) == [k |-> "str", v |-> s]
JArr(elems) == [k |-> "arr", v |-> elems]
JObj(members) == [k |-> "obj", v |-> members]
Member(key, val) == [key |-> key, val |-> val]

\* Setting a property: a key already present keeps its place and takes the
\* new value (JSON.parse of an object that repeats a key).
PutMember(members, key, val) ==
  IF \E m \in 1..Len(members) : members[m].key = key
  THEN [m \in 1..Len(members) |->
          IF members[m].key = key THEN Member(key, val) ELSE members[m]]
  ELSE Append(members, Member(key, val))

(***************************************************************************)
(* JSON.parse.  Each parsing operator returns [ok, val, next]: whether a   *)
(* value was read at position i of s, the value, and the position after.   *)
(***************************************************************************)
Fail(i) == [ok |-> FALSE, val |-> Undefined, next |-> i]
Got(val, i) == [ok |-> TRUE, val |-> val, next |-> i]

IsJsonSpace(c) == c \in {" ", "\t", "\n", "\r"}

RECURSIVE SkipWs(_, _)
SkipWs(s, i) ==
  IF i <= Len(s) /\ IsJsonSpace(Ch(s, i)) THEN SkipWs(s, i + 1) ELSE i

StartsWithAt(s, i, word) ==
  i + Len(word) - 1 <= Len(s) /\ SubSeq(s, i, i + Len(word) - 1) = word

RECURSIVE ParseStringBody(_, _, _)
\* The characters after an opening quote, up to the closing quote.
ParseStringBody(s, i, acc) ==
  IF i > Len(s) THEN Fail(i)
  ELSE LET c == Ch(s, i) IN
    IF c = "\"" THEN Got(JStr(acc), i + 1)
    ELSE IF c = "\\" THEN
      IF i + 1 > Len(s) THEN Fail(i)
      ELSE LET e == Ch(s, i + 1) IN
        IF e = "\"" THEN ParseStringBody(s, i + 2, acc \o "\"")
        ELSE IF e = "\\" THEN ParseStringBody(s, i + 2, acc \o "\\")
        ELSE IF e = "n" THEN ParseStringBody(s, i + 2, acc \o "\n")
        ELSE Fail(i)
    ELSE IF c \in {"\n", "\t", "\r"} THEN Fail(i)
    ELSE ParseStringBody(s, i + 1, acc \o c)

RECURSIVE ParseDigits(_, _)
ParseDigits(s, i) ==
  IF i <= Len(s) /\ IsDigit(Ch(s, i)) THEN ParseDigits(s, i + 1) ELSE i

ParseNumber(s, i) ==
  LET j == ParseDigits(s, i) IN
  IF j = i THEN Fail(i)
  ELSE IF j - i > 1 /\ Ch(s, i) = "0" THEN Fail(i)
  ELSE Got(JNum(SubSeq(s, i, j - 1)), j)

RECURSIVE ParseValue(_, _)
RECURSIVE ParseElements(_, _, _)
RECURSIVE ParseMembers(_, _, _)

\* After "[" or after a ",": an element, then "," or "]".
ParseElements(s, i, acc) ==
  LET r == ParseValue(s, i) IN
  IF ~r.ok THEN Fail(i)
  ELSE LET j == SkipWs(s, r.next) IN
    IF j > Len(s) THEN Fail(j)
    ELSE IF Ch(s, j) = "," THEN ParseElements(s, j + 1, Append(acc, r.val))
    ELSE IF Ch(s, j) = "]" THEN Got(JArr(Append(acc, r.val)), j + 1)
    ELSE Fail(j)

\* After "{" or after a ",": a "key": value member, then "," or "}".
ParseMembers(s, i, acc) ==
  LET j == SkipWs(s, i) IN
  IF j > Len(s) \/ Ch(s, j) # "\"" THEN Fail(j)
  ELSE LET key == ParseStringBody(s, j + 1, "") IN
    IF ~key.ok THEN Fail(j)
    ELSE LET c == SkipWs(s, key.next) IN
      IF c > Len(s) \/ Ch(s, c) # ":" THEN Fail(c)
      ELSE LET r == ParseValue(s, c + 1) IN
        IF ~r.ok THEN Fail(c)
        ELSE LET e == SkipWs(s, r.next)
                 members == PutMember(acc, key.val.v, r.val)
             IN
          IF e > Len(s) THEN Fail(e)
          ELSE IF Ch(s, e) = "," THEN ParseMembers(s, e + 1, members)
          ELSE IF Ch(s, e) = "}" THEN Got(JObj(members), e + 1)
          ELSE Fail(e)

ParseValue(s, i0) ==
  LET i == SkipWs(s, i0) IN
  IF i > Len(s) THEN Fail(i)
  ELSE LET c == Ch(s, i) IN
    IF c = "\"" THEN ParseStringBody(s, i + 1, "")
    ELSE IF IsDigit(c) THEN ParseNumber(s, i)
    ELSE IF StartsWithAt(s, i, "null") THEN Got(JNull, i + 4)
    ELSE IF StartsWithAt(s, i, "true") THEN Got(JBool(TRUE), i + 4)
    ELSE IF StartsWithAt(s, i, "false") THEN Got(JBool(FALSE), i + 5)
    ELSE IF c = "[" THEN
      LET j == SkipWs(s, i + 1) IN
      IF j <= Len(s) /\ Ch(s, j) = "]" THEN Got(JArr(<<>>), j + 1)
      ELSE ParseElements(s, i + 1, <<>>)
    ELSE IF c = "{" THEN
      LET j == SkipWs(s, i + 1) IN
      IF j <= Len(s) /\ Ch(s, j) = "}" THEN Got(JObj(<<>>), j + 1)
      ELSE ParseMembers(s, i + 1, <<>>)
    ELSE Fail(i)

\* JSON.parse(s): [ok |-> FALSE] stands for the SyntaxError it throws.
JSONParse(s) ==
  LET r == ParseValue(s, 1) IN
  IF r.ok /\ SkipWs(s, r.next) > Len(s) THEN r ELSE Fail(1)

(***************************************************************************)
(* The JavaScript operations the line handler applies to a decoded value.  *)
(***************************************************************************)
\* !v is false
Truthy(v) ==
  CASE v.k \in {"null", "undefined"} -> FALSE
    [] v.k = "bool" -> v.v
    [] v.k = "num" -> v.v # "0"
    [] v.k = "str" -> v.v # ""
    [] OTHER -> TRUE

\* Reading a property of null or undefined throws a TypeError.
CanGet(v) == v.k \notin {"null", "undefined"}

\* Object.keys(v), for v other than null and undefined
OwnKeys(v) ==
  CASE v.k = "obj" -> [m \in 1..Len(v.v) |-> v.v[m].key]
    [] v.k \in {"arr", "str"} -> [m \in 1..Len(v.v) |-> NatToStr(m - 1)]
    [] OTHER -> <<>>

\* v[key], for v other than null and undefined
Get(v, key) ==
  CASE v.k = "obj" ->
         IF \E m \in 1..Len(v.v) : v.v[m].key = key
         THEN v.v[CHOOSE m \in 1..Len(v.v) : v.v[m].key = key].val
         ELSE Undefined
    [] v.k = "arr" ->
         IF \E m \in 1..Len(v.v) : NatToStr(m - 1) = key
         THEN v.v[CHOOSE m \in 1..Len(v.v) : NatToStr(m - 1) = key]
         ELSE Undefined
    [] v.k = "str" ->
         IF \E m \in 1..Len(v.v) : NatToStr(m - 1) = key
         THEN JStr(Ch(v.v, CHOOSE m \in 1..Len(v.v) : NatToStr(m - 1) = key))
         ELSE Undefined
    [] OTHER -> Undefined

\* for (const b of v) runs: over an array's elements, over a string's
\* characters; anything else is not iterable (a TypeError).
Iterable(v) == v.k \in {"arr", "str"}
Items(v) ==
  IF v.k = "arr" THEN v.v ELSE [m \in 1..Len(v.v) |-> JStr(Ch(v.v, m))]

RECURSIVE QuoteChars(_)
\* the characters of s as JSON.stringify writes them inside the quotes (the
\* string is taken by halves)
QuoteChars(s) ==
  IF Len(s) = 0 THEN ""
  ELSE IF Len(s) = 1
  THEN LET c == Ch(s, 1) IN
       IF c = "\"" THEN "\\\""
       ELSE IF c = "\\" THEN "\\\\"
       ELSE IF c = "\n" THEN "\\n"
       ELSE c
  ELSE LET h == Len(s) \div 2 IN
       QuoteChars(SubSeq(s, 1, h)) \o QuoteChars(SubSeq(s, h + 1, Len(s)))

RECURSIVE JSONStringify(_)
RECURSIVE StringifyElements(_)
RECURSIVE StringifyMembers(_)
StringifyElements(elems) ==
  IF elems = <<>> THEN ""
  ELSE JSONStringify(Head(elems))
       \o (IF Len(elems) > 1 THEN "," ELSE "")
       \o StringifyElements(Tail(elems))
StringifyMembers(members) ==
  IF members = <<>> THEN ""
  ELSE "\"" \o QuoteChars(Head(members).key) \o "\":"
       \o JSONStringify(Head(members).val)
       \o (IF Len(members) > 1 THEN "," ELSE "")
       \o StringifyMembers(Tail(members))
\* JSON.stringify(v) of a value JSON.parse built
JSONStringify(v) ==
  CASE v.k = "null" -> "null"
    [] v.k = "bool" -> IF v.v THEN "true" ELSE "false"
    [] v.k = "num" -> v.v
    [] v.k = "str" -> "\"" \o QuoteChars(v.v) \o "\""
    [] v.k = "arr" -> "[" \o StringifyElements(v.v) \o "]"
    [] v.k = "obj" -> "{" \o StringifyMembers(v.v) \o "}"

(***************************************************************************)
(* parseLine (src/index.ts:301).  JNull stands for its null result.        *)
(***************************************************************************)
\* parseLine without its try/catch.
parseLineNoCatch(line) ==
  LET trimmed == Trim(line) IN
  IF trimmed = "" THEN JNull
  ELSE LET r == JSONParse(trimmed) IN
    IF r.ok THEN r.val ELSE Raised

parseLine(line) ==
  LET trimmed == Trim(line) IN
  IF trimmed = "" THEN JNull
  ELSE LET r == JSONParse(trimmed) IN
    IF r.ok THEN r.val ELSE JNull

(***************************************************************************)
(* toPiToolName (src/index.ts:315).                                        *)
(***************************************************************************)
TOOL_NAME_MAP ==
  << Member("shellToolCall", "Shell"), Member("readToolCall", "Read"),
     Member("editToolCall", "Edit"), Member("writeToolCall", "Write"),
     Member("deleteToolCall", "Delete"), Member("grepToolCall", "Grep"),
     Member("globToolCall", "Glob"), Member("lsToolCall", "Ls"),
     Member("todoToolCall", "Todo"),
     Member("updateTodosToolCall", "UpdateTodos"),
     Member("findToolCall", "Find"), Member("webFetchToolCall", "WebFetch"),
     Member("webSearchToolCall", "WebSearch") >>

ToolCallSuffix == "ToolCall"

\* cliKey.replace(/ToolCall$/, "")
StripToolCall(cliKey) ==
  LET n == Len(cliKey)
      m == Len(ToolCallSuffix)
  IN IF n >= m /\ SubSeq(cliKey, n - m + 1, n) = ToolCallSuffix
     THEN SubSeq(cliKey, 1, n - m)
     ELSE cliKey

\* What TOOL_NAME_MAP, an object literal, inherits from Object.prototype: a
\* lookup by key finds these too (three of its members; the functions by
\* their source text).
ObjectPrototype ==
  << Member("constructor",
            [k |-> "fn", v |-> "function Object() { [native code] }"]),
     Member("toString",
            [k |-> "fn", v |-> "function toString() { [native code] }"]),
     Member("__proto__", JObj(<<>>)) >>

\* TOOL_NAME_MAP[cliKey] ?? cliKey.replace(/ToolCall$/, ""), as a value:
\* the lookup is by own key, then along the prototype chain.
toPiToolName(cliKey) ==
  IF \E m \in 1..Len(TOOL_NAME_MAP) : TOOL_NAME_MAP[m].key = cliKey
  THEN JStr(TOOL_NAME_MAP[CHOOSE m \in 1..Len(TOOL_NAME_MAP) :
                            TOOL_NAME_MAP[m].key = cliKey].val)
  ELSE IF \E m \in 1..Len(ObjectPrototype) : ObjectPrototype[m].key = cliKey
  THEN ObjectPrototype[CHOOSE m \in 1..Len(ObjectPrototype) :
                         ObjectPrototype[m].key = cliKey].val
  ELSE JStr(StripToolCall(cliKey))

(***************************************************************************)
(* The stdout lines, stderr chunks, exit codes and fault messages the      *)
(* subprocess and the runtime deliver in this model.                       *)
(***************************************************************************)
LineHi ==
  "{\"type\":\"assistant\",\"message\":{\"content\":[{\"type\":\"text\",\"text\":\"Hi\"}]}}"
LineBlankThenText ==
  "{\"type\":\"assistant\",\"message\":{\"content\":[{\"type\":\"text\",\"text\":\" \"},{\"type\":\"image\"},{\"type\":\"text\",\"text\":\" b\"}]}}"
LineBlankFragment ==
  " {\"type\":\"assistant\",\"message\":{\"content\":[{\"type\":\"text\",\"text\":\"\\n\"}]}}\t"
LineTwoTexts ==
  "{\"type\":\"assistant\",\"message\":{\"content\":[{\"type\":\"text\",\"text\":\"a\"},{\"type\":\"text\",\"text\":\"b \"}]}}"
LineShellStarted ==
  "{\"type\":\"tool_call\",\"subtype\":\"started\",\"tool_call\":{\"shellToolCall\":{\"args\":{\"cmd\":\"ls\"}}}}"
LineShellCompleted ==
  "{\"type\":\"tool_call\",\"subtype\":\"completed\",\"tool_call\":{\"shellToolCall\":{\"args\":{\"cmd\":\"ls\"},\"result\":{\"success\":{}}}}}"
LineResult == "{\"type\":\"result\",\"subtype\":\"success\",\"duration_ms\":12}"
LineSystem == "{\"type\":\"system\",\"subtype\":\"init\"}"

\* Lines of the three recognized shapes, and of an unknown type.
WellFormedLines ==
  { LineHi, LineBlankThenText, LineBlankFragment, LineTwoTexts, LineShellStarted,
    LineShellCompleted, LineResult, LineSystem }

\* Lines that are blank or that JSON.parse rejects.
BadLines ==
  { "", " \t", "{bad", "{\"type\":\"assistant\"", "{\"type\":\"result\",}",
    "Hi", "[1,]", "\"open", "01" }

LineNoMessage == "{\"type\":\"assistant\"}"
LineNoContent == "{\"type\":\"assistant\",\"message\":{}}"
LineContentNumber == "{\"type\":\"assistant\",\"message\":{\"content\":5}}"
LineContentString == "{\"type\":\"assistant\",\"message\":{\"content\":\"ab\"}}"
LineNullBlock == "{\"type\":\"assistant\",\"message\":{\"content\":[null]}}"
LineTextNotString ==
  "{\"type\":\"assistant\",\"message\":{\"content\":[{\"type\":\"text\",\"text\":\"a\"},{\"type\":\"text\",\"text\":5}]}}"
LineTextMissing ==
  "{\"type\":\"assistant\",\"message\":{\"content\":[{\"type\":\"text\"}]}}"
LineNoToolCall == "{\"type\":\"tool_call\",\"subtype\":\"started\"}"
LineEmptyToolCall ==
  "{\"type\":\"tool_call\",\"subtype\":\"started\",\"tool_call\":{}}"
LineNoArgs ==
  "{\"type\":\"tool_call\",\"subtype\":\"started\",\"tool_call\":{\"lsToolCall\":{}}}"
LineNullPayload ==
  "{\"type\":\"tool_call\",\"subtype\":\"started\",\"tool_call\":{\"lsToolCall\":null}}"

\* Lines that JSON.parse accepts and that have none of the recognized shapes.
OddLines ==
  { "null", "0", "5", "true", "\"str\"", "[]", "{}", "{\"type\":5}",
    LineNoMessage, LineNoContent, LineContentNumber, LineContentString,
    LineNullBlock, LineTextNotString, LineTextMissing, LineNoToolCall,
    LineEmptyToolCall, LineNoArgs, LineNullPayload }

Lines == WellFormedLines \cup BadLines \cup OddLines

StderrChunks == { " \n", " auth required\n" }

\* The code argument of 'close': a number, or null when a signal ended the
\* process; written as the text a template string gives it.
ExitCodes == { "0", "1", "null" }
\* The code 'close' carries after a failed spawn (the negated errno).
SpawnFailCode == "-2"

SpawnFailMessage == "spawn agent ENOENT"
KillFailMessage == "kill EPERM"
SetupFaultMessage == "setup failed"

(***************************************************************************)
(* The state of one invocation.                                            *)
(***************************************************************************)
VARIABLES
  pc,               \* "init", "awaiting" (handlers registered), "resolved", "caught"
  events,           \* the events given to stream.push, in order
  ended,            \* the number of calls of stream.end()
  output,           \* the AssistantMessage
  textBlockOpen,
  accumulatedText,
  stderrChunks,
  aborted,          \* options.signal.aborted
  listening,        \* onAbort is registered on the signal
  kills,            \* the number of calls of child.kill
  child,            \* "none", "spawnfail", "failclosing", "alive", "closed"
  nLines,           \* the number of stdout lines delivered
  fault,            \* a callback threw (an uncaught exception)
  last,             \* the callback that ran last, and its argument
  delivered         \* the text fragments the subprocess has sent, in order

streamVars ==
  << pc, events, ended, output, textBlockOpen, accumulatedText, stderrChunks,
     aborted, listening, kills, child, nLines, fault, last, delivered >>

(***************************************************************************)
(* The state of the extension: its entry point, the promise and the child  *)
(* of runAgentModels, and the subprocesses spawned so far.                 *)
(***************************************************************************)
VARIABLES
  apiKey,           \* process.env["CURSOR_API_KEY"]: <<>> unset, <<value>> set
  epc,              \* "start", "awaiting", "registered", "failed"
  promise,          \* the promise of runAgentModels: state and value
  timer,            \* "idle", "armed", "fired", "cleared"
  dchild,           \* "none", "spawnfail", "failclosing", "alive", "closed"
  dstdout,          \* stdout of agent models, collected
  dstderr,          \* stderr of agent models, collected
  dData,            \* the number of 'data' events of agent models so far
  dkills,           \* the number of calls of child.kill in runAgentModels
  dcode,            \* the code 'close' carried; "" before 'close'
  registrations,    \* the model lists given to pi.registerProvider
  spawns            \* the subprocesses spawned: command and arguments

extVars ==
  << apiKey, epc, promise, timer, dchild, dstdout, dstderr, dData, dkills,
     dcode, registrations, spawns >>

(***************************************************************************)
(* A second invocation of streamCursorCli, parked while the callbacks of   *)
(* the first run (the record of its variables), and the last call of one   *)
(* of the pure functions.                                                  *)
(***************************************************************************)
VARIABLES
  other,            \* the variables of the invocation whose callbacks wait
  call              \* the function called last, its argument, its result

sideVars == << other, call >>

vars == << streamVars, extVars, sideVars >>

\* The extension before its entry point has run.
Pending == [state |-> "pending", value |-> <<>>]

ExtIdle ==
  /\ apiKey = <<>>
  /\ epc = "start"
  /\ promise = Pending
  /\ timer = "idle"
  /\ dchild = "none"
  /\ dstdout = ""
  /\ dstderr = ""
  /\ dData = 0
  /\ dkills = 0
  /\ dcode = ""
  /\ registrations = <<>>
  /\ spawns = <<>>

\* usage: every counter and every cost is 0.
ZeroUsage ==
  [ input |-> 0, output |-> 0, cacheRead |-> 0, cacheWrite |-> 0,
    totalTokens |-> 0,
    cost |-> [ input |-> 0, output |-> 0, cacheRead |-> 0, cacheWrite |-> 0,
               total |-> 0 ] ]

\* errorMessage is <<>> while the field is undefined, <<text>> once set.
InitialOutput ==
  [ content |-> <<>>, stopReason |-> "stop", errorMessage |-> <<>>,
    usage |-> ZeroUsage ]

\* The variables of an invocation that has not been called.
Uncalled(isAborted) ==
  [ pc |-> "init", events |-> <<>>, ended |-> 0, output |-> InitialOutput,
    textBlockOpen |-> FALSE, accumulatedText |-> "", stderrChunks |-> <<>>,
    aborted |-> isAborted, listening |-> FALSE, kills |-> 0,
    child |-> "none", nLines |-> 0, fault |-> FALSE,
    last |-> [cb |-> "none", arg |-> ""], delivered |-> <<>> ]

NoCall == [fn |-> "none", arg |-> <<>>, result |-> <<>>]

SideIdle ==
  /\ other = Uncalled(FALSE)
  /\ call = NoCall

\* The contentIndex of an event that has none.
NoIndex == 0 - 1

\* An event as pushed; msg is the output message at the time of the push
\* (the event's partial, message or error field).
Event(type, contentIndex, delta, content, reason, msg) ==
  [ type |-> type, contentIndex |-> contentIndex, delta |-> delta,
    content |-> content, reason |-> reason, msg |-> msg ]

StartEvent(msg) == Event("start", NoIndex, "", "", "", msg)
TextStart(idx, msg) == Event("text_start", idx, "", "", "", msg)
TextDelta(idx, delta, msg) == Event("text_delta", idx, delta, "", "", msg)
TextEnd(idx, content, msg) == Event("text_end", idx, "", content, "", msg)
DoneEvent(reason, msg) == Event("done", NoIndex, "", "", reason, msg)
ErrorEvent(reason, msg) == Event("error", NoIndex, "", "", reason, msg)

(***************************************************************************)
(* The line handler (src/index.ts:410-463), on the record h of what it     *)
(* reads and writes: events, output, textBlockOpen, accumulatedText, and   *)
(* fault (it threw).                                                       *)
(***************************************************************************)
Handler ==
  [ events |-> events, output |-> output, textBlockOpen |-> textBlockOpen,
    accumulatedText |-> accumulatedText, fault |-> fault ]

Throw(h) == [h EXCEPT !.fault = TRUE]

\* OpenTextBlock without the test of the open flag.
OpenTextBlockAlways(h) ==
  LET out == [h.output EXCEPT !.content = Append(h.output.content, "")]
  IN [h EXCEPT !.output = out,
               !.events = Append(h.events,
                                 TextStart(Len(out.content) - 1, out)),
               !.textBlockOpen = TRUE]

\* if (!textBlockOpen) { push a block; text_start; textBlockOpen = true }
OpenTextBlock(h) ==
  IF h.textBlockOpen THEN h
  ELSE LET out == [h.output EXCEPT
                     !.content = Append(h.output.content, "")]
       IN [h EXCEPT !.output = out,
                    !.events = Append(h.events,
                                      TextStart(Len(out.content) - 1, out)),
                    !.textBlockOpen = TRUE]

\* AppendText with "=" for "+=" on accumulatedText.
AppendTextAssigning(h, text) ==
  LET o == OpenTextBlock(h)
      idx == Len(o.output.content) - 1
      out == [o.output EXCEPT !.content[idx + 1] = @ \o text]
  IN [o EXCEPT !.output = out,
               !.accumulatedText = text,
               !.events = Append(o.events, TextDelta(idx, text, out))]

\* AppendText counting the characters of text as output tokens.
AppendTextCounting(h, text) ==
  LET o == OpenTextBlock(h)
      idx == Len(o.output.content) - 1
      out == [o.output EXCEPT !.content[idx + 1] = @ \o text,
                              !.usage.output = @ + Len(text)]
  IN [o EXCEPT !.output = out,
               !.accumulatedText = @ \o text,
               !.events = Append(o.events, TextDelta(idx, text, out))]

\* AppendText pushing the text_delta before the text_start.
AppendTextDeltaFirst(h, text) ==
  LET o == OpenTextBlock(h)
      idx == Len(o.output.content) - 1
      out == [o.output EXCEPT !.content[idx + 1] = @ \o text]
  IN [o EXCEPT !.output = out,
               !.accumulatedText = @ \o text,
               !.events = h.events \o <<TextDelta(idx, text, out)>>
                            \o SubSeq(o.events, Len(h.events) + 1,
                                      Len(o.events))]

\* AppendText with the block's content so far as the delta.
AppendTextCumulative(h, text) ==
  LET o == OpenTextBlock(h)
      idx == Len(o.output.content) - 1
      out == [o.output EXCEPT !.content[idx + 1] = @ \o text]
  IN [o EXCEPT !.output = out,
               !.accumulatedText = @ \o text,
               !.events = Append(o.events,
                                 TextDelta(idx, out.content[idx + 1], out))]

\* AppendText without "textBlock.text += text".
AppendTextSkippingBlock(h, text) ==
  LET o == OpenTextBlock(h)
      idx == Len(o.output.content) - 1
  IN [o EXCEPT !.accumulatedText = @ \o text,
               !.events = Append(o.events, TextDelta(idx, text, o.output))]

\* The open/append/emit path of both branches (lines 420-431, 450-460).
AppendText(h, text) ==
  LET o == OpenTextBlock(h)
      idx == Len(o.output.content) - 1
      out == [o.output EXCEPT !.content[idx + 1] = @ \o text]
  IN [o EXCEPT !.output = out,
               !.accumulatedText = @ \o text,
               !.events = Append(o.events, TextDelta(idx, text, out))]

RECURSIVE ForBlocks(_, _)
\* for (const block of ae.message.content) { ... }
ForBlocks(h, blocks) ==
  IF blocks = <<>> THEN h
  ELSE LET block == Head(blocks) IN
    IF ~CanGet(block) THEN Throw(h)
    ELSE IF Get(block, "type") # JStr("text") THEN ForBlocks(h, Tail(blocks))
    ELSE LET text == Get(block, "text") IN
      IF text.k # "str" THEN Throw(h)
      ELSE IF Trim(text.v) = "" THEN ForBlocks(h, Tail(blocks))
      ELSE ForBlocks(AppendText(h, text.v), Tail(blocks))

AssistantBranch(h, event) ==
  LET message == Get(event, "message") IN
  IF ~CanGet(message) THEN Throw(h)
  ELSE LET content == Get(message, "content") IN
    IF ~Iterable(content) THEN Throw(h)
    ELSE ForBlocks(h, Items(content))

MarkerLimit == 120
Hourglass == "@"    \* stands for the one-character hourglass sign
Ellipsis == "~"     \* stands for the one-character ellipsis sign

\* Brief cutting a rendering of exactly 120 characters as well.
BriefAtLimit(argsSnippet) ==
  IF Len(argsSnippet) >= MarkerLimit
  THEN SubSeq(argsSnippet, 1, MarkerLimit) \o Ellipsis
  ELSE argsSnippet

\* argsSnippet.length > 120 ? argsSnippet.slice(0, 120) + ellipsis : argsSnippet
Brief(argsSnippet) ==
  IF Len(argsSnippet) > MarkerLimit
  THEN SubSeq(argsSnippet, 1, MarkerLimit) \o Ellipsis
  ELSE argsSnippet

\* `\n<hourglass> [${toolName}] ${brief}\n`; the template string turns
\* toolName into text.
Marker(toolName, args) ==
  LET name == IF toolName.k = "obj" THEN "[object Object]" ELSE toolName.v
  IN "\n" \o Hourglass \o " [" \o name \o "] "
          \o Brief(JSONStringify(IF CanGet(args) THEN args ELSE JObj(<<>>)))
          \o "\n"

\* ToolCallBranch without the marker in accumulatedText.
ToolCallBranchNoTotal(h, event) ==
  LET tool_call == Get(event, "tool_call") IN
  IF ~CanGet(tool_call) THEN Throw(h)
  ELSE LET keys == OwnKeys(tool_call) IN
    IF keys = <<>> \/ keys[1] = "" THEN h
    ELSE LET cliKey == keys[1]
             toolName == toPiToolName(cliKey)
         IN
      IF Get(event, "subtype") # JStr("started") THEN h
      ELSE LET payload == Get(tool_call, cliKey) IN
        IF ~CanGet(payload) THEN Throw(h)
        ELSE [ AppendText(h, Marker(toolName, Get(payload, "args")))
               EXCEPT !.accumulatedText = h.accumulatedText ]

\* ToolCallBranch without the test of the subtype.
ToolCallBranchAnySubtype(h, event) ==
  LET tool_call == Get(event, "tool_call") IN
  IF ~CanGet(tool_call) THEN Throw(h)
  ELSE LET keys == OwnKeys(tool_call) IN
    IF keys = <<>> \/ keys[1] = "" THEN h
    ELSE LET cliKey == keys[1]
             toolName == toPiToolName(cliKey)
         IN
      LET payload == Get(tool_call, cliKey) IN
        IF ~CanGet(payload) THEN Throw(h)
        ELSE AppendText(h, Marker(toolName, Get(payload, "args")))

ToolCallBranch(h, event) ==
  LET tool_call == Get(event, "tool_call") IN
  IF ~CanGet(tool_call) THEN Throw(h)
  ELSE LET keys == OwnKeys(tool_call) IN
    IF keys = <<>> \/ keys[1] = "" THEN h
    ELSE LET cliKey == keys[1]
             toolName == toPiToolName(cliKey)
         IN
      IF Get(event, "subtype") # JStr("started") THEN h
      ELSE LET payload == Get(tool_call, cliKey) IN
        IF ~CanGet(payload) THEN Throw(h)
        ELSE AppendText(h, Marker(toolName, Get(payload, "args")))

\* parseLine of each line of the model, computed once.
Decoded == [line \in Lines |-> parseLine(line)]

OnLine(h, line) ==
  LET event == Decoded[line] IN
  IF event = Raised THEN Throw(h)
  ELSE IF ~Truthy(event) THEN h
  ELSE IF Get(event, "type") = JStr("assistant") THEN AssistantBranch(h, event)
  ELSE IF Get(event, "type") = JStr("tool_call") THEN ToolCallBranch(h, event)
  ELSE h

(***************************************************************************)
(* The 'close' handler (src/index.ts:466-496) and the 'error' handler      *)
(* (src/index.ts:498-505), as functions of the state they read.            *)
(***************************************************************************)
\* if (textBlockOpen) { text_end; textBlockOpen = false }
CloseTextBlock(evs, out, open, acc) ==
  IF open
  THEN Append(evs, TextEnd(Len(out.content) - 1, acc, out))
  ELSE evs

\* ExitMessage without the trim().
ExitMessageUntrimmed(chunks, code) ==
  LET stderr == JoinChunks(chunks) IN
  IF stderr # "" THEN stderr ELSE "Cursor CLI exited with code " \o code

\* stderr || `Cursor CLI exited with code ${code}`
ExitMessage(chunks, code) ==
  LET stderr == Trim(JoinChunks(chunks)) IN
  IF stderr # "" THEN stderr ELSE "Cursor CLI exited with code " \o code

\* CloseOutput writing the captured stderr on the aborted path too.
CloseOutputStderrOnAbort(out, isAborted, code, acc, chunks) ==
  IF isAborted
  THEN [out EXCEPT !.stopReason = "aborted",
                   !.errorMessage = <<ExitMessage(chunks, code)>>]
  ELSE IF code # "0" /\ acc = ""
  THEN [out EXCEPT !.stopReason = "error",
                   !.errorMessage = <<ExitMessage(chunks, code)>>]
  ELSE out

\* The output message the close handler leaves.
CloseOutput(out, isAborted, code, acc, chunks) ==
  IF isAborted THEN [out EXCEPT !.stopReason = "aborted"]
  ELSE IF code # "0" /\ acc = ""
  THEN [out EXCEPT !.stopReason = "error",
                   !.errorMessage = <<ExitMessage(chunks, code)>>]
  ELSE out

\* CloseEvent without the "no text accumulated" guard: every non-zero exit
\* is reported as an error.
CloseEventNoPartial(out, isAborted, code, acc) ==
  IF isAborted THEN ErrorEvent("aborted", out)
  ELSE IF code # "0" THEN ErrorEvent("error", out)
  ELSE DoneEvent("stop", out)

\* The terminal event the close handler pushes.
CloseEvent(out, isAborted, code, acc) ==
  IF isAborted THEN ErrorEvent("aborted", out)
  ELSE IF code # "0" /\ acc = "" THEN ErrorEvent("error", out)
  ELSE DoneEvent("stop", out)

\* OnClose returning on the aborted path before it pushes and ends.
OnCloseSilentAbort(code) ==
  LET out == CloseOutput(output, aborted, code, accumulatedText, stderrChunks)
  IN
  /\ listening' = FALSE
  /\ events' = IF aborted
                THEN CloseTextBlock(events, output, textBlockOpen,
                                    accumulatedText)
                ELSE Append(CloseTextBlock(events, output, textBlockOpen,
                                           accumulatedText),
                            CloseEvent(out, aborted, code, accumulatedText))
  /\ textBlockOpen' = FALSE
  /\ output' = out
  /\ ended' = IF aborted THEN ended ELSE ended + 1
  /\ pc' = "resolved"

OnClose(code) ==
  LET out == CloseOutput(output, aborted, code, accumulatedText, stderrChunks)
  IN
  /\ listening' = FALSE
  /\ events' = Append(CloseTextBlock(events, output, textBlockOpen,
                                     accumulatedText),
                      CloseEvent(out, aborted, code, accumulatedText))
  /\ textBlockOpen' = FALSE
  /\ output' = out
  /\ ended' = ended + 1
  /\ pc' = "resolved"

\* ErrorOutput without the assignment of errorMessage.
ErrorOutputNoMessage(out, message) == [out EXCEPT !.stopReason = "error"]

\* The output message the error handler leaves.
ErrorOutput(out, message) ==
  [out EXCEPT !.stopReason = "error", !.errorMessage = <<message>>]

ErrorHandlerEvents(evs, out) == Append(evs, ErrorEvent("error", out))

OnError(message) ==
  LET out == ErrorOutput(output, message) IN
  /\ listening' = FALSE
  /\ output' = out
  /\ events' = ErrorHandlerEvents(events, out)
  /\ ended' = ended + 1
  /\ pc' = "resolved"

\* CatchOutput without the look at the signal.
CatchOutputAlwaysError(out, isAborted, message) ==
  [out EXCEPT !.stopReason = "error", !.errorMessage = <<message>>]

\* The catch block (src/index.ts:507-512).
CatchOutput(out, isAborted, message) ==
  [out EXCEPT !.stopReason = IF isAborted THEN "aborted" ELSE "error",
              !.errorMessage = <<message>>]

(***************************************************************************)
(* Actions.                                                                *)
(***************************************************************************)
Init ==
  /\ pc = "init"
  /\ events = <<>>
  /\ ended = 0
  /\ output = InitialOutput
  /\ textBlockOpen = FALSE
  /\ accumulatedText = ""
  /\ stderrChunks = <<>>
  /\ aborted \in BOOLEAN      \* the signal may have fired before the call
  /\ listening = FALSE
  /\ kills = 0
  /\ child = "none"
  /\ nLines = 0
  /\ fault = FALSE
  /\ last = [cb |-> "none", arg |-> ""]
  /\ delivered = <<>>
  /\ ExtIdle
  /\ SideIdle

\* streamCursorCli up to its await: the start event, the spawn (which may
\* fail to start the executable), the listeners.
Call ==
  /\ pc = "init"
  /\ events' = Append(events, StartEvent(output))
  /\ \E started \in BOOLEAN :
       child' = IF started THEN "alive" ELSE "spawnfail"
  /\ listening' = TRUE
  /\ pc' = "awaiting"
  /\ last' = [cb |-> "call", arg |-> ""]
  /\ UNCHANGED << extVars, sideVars, delivered, ended, output, textBlockOpen, accumulatedText, stderrChunks,
                  aborted, kills, nLines, fault >>

\* A fault thrown inside the try block: by serializeContext, before the
\* start event, or by spawn, after it.
CallThrows ==
  /\ pc = "init"
  /\ \E started \in BOOLEAN :
       LET out == CatchOutput(output, aborted, SetupFaultMessage)
           evs == IF started THEN Append(events, StartEvent(output))
                  ELSE events
       IN /\ output' = out
          /\ events' = Append(evs, ErrorEvent(out.stopReason, out))
          /\ last' = [cb |-> "catch",
                      arg |-> IF started THEN "spawn" ELSE "prompt"]
  /\ ended' = ended + 1
  /\ pc' = "caught"
  /\ UNCHANGED << extVars, sideVars, delivered, textBlockOpen, accumulatedText, stderrChunks, aborted,
                  listening, kills, child, nLines, fault >>

RECURSIVE TextsOf(_)
\* The text fragments of the content entries of an assistant event.
TextsOf(blocks) ==
  IF blocks = <<>> THEN <<>>
  ELSE LET block == Head(blocks) IN
    (IF block.k = "obj" /\ Get(block, "type") = JStr("text")
        /\ Get(block, "text").k = "str"
     THEN <<Get(block, "text").v>> ELSE <<>>) \o TextsOf(Tail(blocks))

\* What a stdout line carries to show: the text fragments of an assistant
\* event, the marker of a started tool call.
SentBy(event) ==
  IF event.k # "obj" THEN <<>>
  ELSE IF Get(event, "type") = JStr("assistant")
          /\ Get(event, "message").k = "obj"
          /\ Get(Get(event, "message"), "content").k = "arr"
  THEN TextsOf(Get(Get(event, "message"), "content").v)
  ELSE IF Get(event, "type") = JStr("tool_call")
          /\ Get(event, "subtype") = JStr("started")
          /\ Get(event, "tool_call").k = "obj"
          /\ Len(Get(event, "tool_call").v) > 0
          /\ Get(event, "tool_call").v[1].val.k = "obj"
  THEN << Marker(toPiToolName(Get(event, "tool_call").v[1].key),
                 Get(Get(event, "tool_call").v[1].val, "args")) >>
  ELSE <<>>

Sent == [line \in Lines |-> SentBy(Decoded[line])]

\* rl.on("line", ...)
Line ==
  /\ child = "alive"
  /\ ~fault
  /\ nLines < MaxLines
  /\ \E line \in Lines :
       LET h == OnLine(Handler, line) IN
       /\ events' = h.events
       /\ output' = h.output
       /\ textBlockOpen' = h.textBlockOpen
       /\ accumulatedText' = h.accumulatedText
       /\ fault' = h.fault
       /\ last' = [cb |-> "line", arg |-> line]
       /\ delivered' = delivered \o Sent[line]
  /\ nLines' = nLines + 1
  /\ UNCHANGED << extVars, sideVars, pc, ended, stderrChunks, aborted, listening, kills, child >>

\* child.stderr.on("data", ...)
StderrData ==
  /\ child = "alive"
  /\ ~fault
  /\ Len(stderrChunks) < MaxStderr
  /\ \E chunk \in StderrChunks :
       /\ stderrChunks' = Append(stderrChunks, chunk)
       /\ last' = [cb |-> "stderr", arg |-> chunk]
  /\ UNCHANGED << extVars, sideVars, delivered, pc, events, ended, output, textBlockOpen, accumulatedText,
                  aborted, listening, kills, child, nLines, fault >>

\* The signal fires.  With onAbort registered, child.kill("SIGTERM") runs;
\* the signal is delivered, or there is nothing to deliver it to.
Abort ==
  /\ pc # "init"
  /\ ~fault
  /\ ~aborted
  /\ aborted' = TRUE
  /\ kills' = IF listening THEN kills + 1 ELSE kills
  /\ listening' = FALSE
  /\ last' = [cb |-> "abort", arg |-> ""]
  /\ UNCHANGED << extVars, sideVars, delivered, pc, events, ended, output, textBlockOpen, accumulatedText,
                  stderrChunks, child, nLines, fault >>

\* The signal fires and child.kill fails (EPERM): kill emits 'error' on the
\* child, whose handler runs inside the call; the process keeps running.
AbortKillFails ==
  /\ pc # "init"
  /\ ~fault
  /\ ~aborted
  /\ listening
  /\ child = "alive"
  /\ aborted' = TRUE
  /\ kills' = kills + 1
  /\ OnError(KillFailMessage)
  /\ last' = [cb |-> "error", arg |-> KillFailMessage]
  /\ UNCHANGED << extVars, sideVars, delivered, textBlockOpen, accumulatedText, stderrChunks, child, nLines,
                  fault >>

\* 'error' of a spawn that failed.
ChildError ==
  /\ child = "spawnfail"
  /\ ~fault
  /\ OnError(SpawnFailMessage)
  /\ child' = "failclosing"
  /\ last' = [cb |-> "error", arg |-> SpawnFailMessage]
  /\ UNCHANGED << extVars, sideVars, delivered, textBlockOpen, accumulatedText, stderrChunks, aborted, kills,
                  nLines, fault >>

\* 'close': of a running process, with its exit code; of a failed spawn,
\* after its 'error'.
ChildClose ==
  /\ child \in {"alive", "failclosing"}
  /\ ~fault
  /\ \E code \in (IF child = "alive" THEN ExitCodes ELSE {SpawnFailCode}) :
       /\ OnClose(code)
       /\ last' = [cb |-> "close", arg |-> code]
  /\ child' = "closed"
  /\ UNCHANGED << extVars, sideVars, delivered, accumulatedText, stderrChunks, aborted, kills, nLines,
                  fault >>

Next ==
  \/ Call
  \/ CallThrows
  \/ Line
  \/ StderrData
  \/ Abort
  \/ AbortKillFails
  \/ ChildError
  \/ ChildClose

Spec == Init /\ [][Next]_vars

(***************************************************************************)
(* The invocation under fair delivery: the synchronous part of             *)
(* streamCursorCli runs once it is called, and the event loop delivers the *)
(* 'error' of a failed spawn and the 'close' of the child's handle.  The   *)
(* stderr listener only appends to stderrChunks, which no guard reads: its *)
(* steps are left out of the runs checked for termination.                 *)
(***************************************************************************)
FairNext ==
  \/ Call
  \/ CallThrows
  \/ Line
  \/ Abort
  \/ AbortKillFails
  \/ ChildError
  \/ ChildClose

FairSpec ==
  /\ Init
  /\ [][FairNext]_vars
  /\ WF_vars(Call \/ CallThrows \/ ChildError \/ ChildClose)

(***************************************************************************)
(* Two invocations of streamCursorCli, their callbacks interleaved by the  *)
(* event loop.  Every variable of an invocation is a local of its call     *)
(* (src/index.ts:340-408): the callbacks of the invocation that runs read  *)
(* and write the variables above, those of the other wait in the record    *)
(* other, and Swap gives the turn to the other.  Each invocation reads up  *)
(* to MaxPairLines lines, a text or a started tool call; stderr is left    *)
(* out.                                                                    *)
(***************************************************************************)
MaxPairLines == 2

\* Swap with accumulatedText shared by the two invocations.
SwapSharingText ==
  /\ ~fault
  /\ pc' = other.pc
  /\ events' = other.events
  /\ ended' = other.ended
  /\ output' = other.output
  /\ textBlockOpen' = other.textBlockOpen
  /\ accumulatedText' = accumulatedText
  /\ stderrChunks' = other.stderrChunks
  /\ aborted' = other.aborted
  /\ listening' = other.listening
  /\ kills' = other.kills
  /\ child' = other.child
  /\ nLines' = other.nLines
  /\ fault' = other.fault
  /\ last' = other.last
  /\ delivered' = other.delivered
  /\ other' =
       [
         pc |-> pc,
         events |-> events,
         ended |-> ended,
         output |-> output,
         textBlockOpen |-> textBlockOpen,
         accumulatedText |-> accumulatedText,
         stderrChunks |-> stderrChunks,
         aborted |-> aborted,
         listening |-> listening,
         kills |-> kills,
         child |-> child,
         nLines |-> nLines,
         fault |-> fault,
         last |-> last,
         delivered |-> delivered ]
  /\ UNCHANGED << extVars, call >>

Swap ==
  /\ ~fault
  /\ pc' = other.pc
  /\ events' = other.events
  /\ ended' = other.ended
  /\ output' = other.output
  /\ textBlockOpen' = other.textBlockOpen
  /\ accumulatedText' = other.accumulatedText
  /\ stderrChunks' = other.stderrChunks
  /\ aborted' = other.aborted
  /\ listening' = other.listening
  /\ kills' = other.kills
  /\ child' = other.child
  /\ nLines' = other.nLines
  /\ fault' = other.fault
  /\ last' = other.last
  /\ delivered' = other.delivered
  /\ other' =
       [
         pc |-> pc,
         events |-> events,
         ended |-> ended,
         output |-> output,
         textBlockOpen |-> textBlockOpen,
         accumulatedText |-> accumulatedText,
         stderrChunks |-> stderrChunks,
         aborted |-> aborted,
         listening |-> listening,
         kills |-> kills,
         child |-> child,
         nLines |-> nLines,
         fault |-> fault,
         last |-> last,
         delivered |-> delivered ]
  /\ UNCHANGED << extVars, call >>

PairLine ==
  /\ nLines < MaxPairLines
  /\ Line
  /\ last'.arg \in {LineHi, LineShellStarted}

PairNext ==
  \/ Call
  \/ CallThrows
  \/ PairLine
  \/ Abort
  \/ AbortKillFails
  \/ ChildError
  \/ ChildClose
  \/ Swap

PairSpec == Init /\ [][PairNext]_vars


(***************************************************************************)
(* Model discovery: parseAgentModelsOutput (src/index.ts:129-154) with the *)
(* static table it looks attributes up in.                                 *)
(***************************************************************************)
Def(id, name, reasoning, contextWindow, maxTokens) ==
  [ id |-> id, name |-> name, reasoning |-> reasoning,
    contextWindow |-> contextWindow, maxTokens |-> maxTokens ]

STATIC_MODELS ==
  << Def("auto", "Auto", FALSE, 200000, 32768),
     Def("composer-1.5", "Composer 1.5", FALSE, 200000, 32768),
     Def("composer-1", "Composer 1", FALSE, 200000, 32768),
     Def("opus-4.6-thinking", "Claude 4.6 Opus (Thinking)", TRUE, 200000, 32000),
     Def("opus-4.6", "Claude 4.6 Opus", FALSE, 200000, 32000),
     Def("opus-4.5-thinking", "Claude 4.5 Opus (Thinking)", TRUE, 200000, 32000),
     Def("opus-4.5", "Claude 4.5 Opus", FALSE, 200000, 32000),
     Def("sonnet-4.6-thinking", "Claude 4.6 Sonnet (Thinking)", TRUE, 200000, 32000),
     Def("sonnet-4.6", "Claude 4.6 Sonnet", FALSE, 200000, 32000),
     Def("sonnet-4.5-thinking", "Claude 4.5 Sonnet (Thinking)", TRUE, 200000, 32000),
     Def("sonnet-4.5", "Claude 4.5 Sonnet", FALSE, 200000, 32000),
     Def("gpt-5.3-codex", "GPT-5.3 Codex", FALSE, 200000, 32768),
     Def("gpt-5.3-codex-low", "GPT-5.3 Codex Low", FALSE, 200000, 32768),
     Def("gpt-5.3-codex-high", "GPT-5.3 Codex High", TRUE, 200000, 32768),
     Def("gpt-5.3-codex-xhigh", "GPT-5.3 Codex Extra High", TRUE, 200000, 32768),
     Def("gpt-5.3-codex-fast", "GPT-5.3 Codex Fast", FALSE, 200000, 32768),
     Def("gpt-5.3-codex-low-fast", "GPT-5.3 Codex Low Fast", FALSE, 200000, 32768),
     Def("gpt-5.3-codex-high-fast", "GPT-5.3 Codex High Fast", TRUE, 200000, 32768),
     Def("gpt-5.3-codex-xhigh-fast", "GPT-5.3 Codex Extra High Fast", TRUE, 200000, 32768),
     Def("gpt-5.2", "GPT-5.2", FALSE, 200000, 32768),
     Def("gpt-5.2-high", "GPT-5.2 High", TRUE, 200000, 32768),
     Def("gpt-5.2-codex", "GPT-5.2 Codex", FALSE, 200000, 32768),
     Def("gpt-5.2-codex-high", "GPT-5.2 Codex High", TRUE, 200000, 32768),
     Def("gpt-5.2-codex-low", "GPT-5.2 Codex Low", FALSE, 200000, 32768),
     Def("gpt-5.2-codex-xhigh", "GPT-5.2 Codex Extra High", TRUE, 200000, 32768),
     Def("gpt-5.2-codex-fast", "GPT-5.2 Codex Fast", FALSE, 200000, 32768),
     Def("gpt-5.2-codex-high-fast", "GPT-5.2 Codex High Fast", TRUE, 200000, 32768),
     Def("gpt-5.2-codex-low-fast", "GPT-5.2 Codex Low Fast", FALSE, 200000, 32768),
     Def("gpt-5.2-codex-xhigh-fast", "GPT-5.2 Codex Extra High Fast", TRUE, 200000, 32768),
     Def("gpt-5.1-high", "GPT-5.1 High", TRUE, 200000, 32768),
     Def("gpt-5.1-codex-max", "GPT-5.1 Codex Max", TRUE, 200000, 32768),
     Def("gpt-5.1-codex-max-high", "GPT-5.1 Codex Max High", TRUE, 200000, 32768),
     Def("gpt-5.1-codex-mini", "GPT-5.1 Codex Mini", FALSE, 200000, 32768),
     Def("gemini-3-pro", "Gemini 3 Pro", FALSE, 1000000, 65536),
     Def("gemini-3-flash", "Gemini 3 Flash", FALSE, 1000000, 65536),
     Def("grok", "Grok", FALSE, 131072, 32768) >>

\* STATIC_MODELS_MAP.get(id): <<>> for undefined, <<def>> for a hit (of
\* two entries with one id the Map keeps the later).
STATIC_MODELS_MAP(id) ==
  LET hits == { i \in 1..Len(STATIC_MODELS) : STATIC_MODELS[i].id = id } IN
  IF hits = {} THEN <<>>
  ELSE << STATIC_MODELS[CHOOSE i \in hits : \A j \in hits : j <= i] >>

DISCOVERY_TIMEOUT_MS == 15000
DefaultContextWindow == 200000
DefaultMaxTokens == 32768

EndsWith(s, word) ==
  Len(s) >= Len(word) /\ SubSeq(s, Len(s) - Len(word) + 1, Len(s)) = word

\* inferReasoning without the anchor at the end of the id.
inferReasoningContains(id) ==
  \E word \in {"-thinking", "-high", "-xhigh", "-max-high"} :
    \E i \in 1..Len(id) : StartsWithAt(id, i, word)

\* /(-thinking|-high|-xhigh|-max-high)$/.test(id)
inferReasoning(id) ==
  \E word \in {"-thinking", "-high", "-xhigh", "-max-high"} : EndsWith(id, word)

Letters == "abcdefghijklmnopqrstuvwxyzABCDEFGHIJKLMNOPQRSTUVWXYZ"
IsAlnum(c) == IsDigit(c) \/ \E i \in 1..Len(Letters) : Ch(Letters, i) = c
\* [a-zA-Z0-9._-]
IsIdChar(c) == IsAlnum(c) \/ c \in {".", "_", "-"}

RECURSIVE IdRun(_, _)
\* The first index from i on whose character is not one of an id.
IdRun(s, i) ==
  IF i <= Len(s) /\ IsIdChar(Ch(s, i)) THEN IdRun(s, i + 1) ELSE i

RECURSIVE SpaceRun(_, _)
\* The first index from i on whose character is not whitespace (\s).
SpaceRun(s, i) ==
  IF i <= Len(s) /\ IsTrimSpace(Ch(s, i)) THEN SpaceRun(s, i + 1) ELSE i

\* r matches ^\s+\((?:current|default|current,\s*default)\)$
IsFlags(r) ==
  LET k == SpaceRun(r, 1)
      body == SubSeq(r, k, Len(r))
  IN /\ k > 1
     /\ \/ body \in {"(current)", "(default)"}
        \/ /\ StartsWithAt(body, 1, "(current,")
           /\ SubSeq(body, SpaceRun(body, Len("(current,") + 1), Len(body))
                = "default)"

RECURSIVE LazyName(_, _)
\* The length the lazy group (.+?) settles on: the least n from which the
\* rest of the line is the flags, or nothing.
LazyName(rest, n) ==
  IF n >= Len(rest) \/ IsFlags(SubSeq(rest, n + 1, Len(rest))) THEN n
  ELSE LazyName(rest, n + 1)

\* lineRe.exec(trimmed): <<>> for null, else the two groups.  The id is
\* followed by whitespace and the dash by whitespace, so both runs are
\* the longest ones.
lineRe(trimmed) ==
  LET a == IdRun(trimmed, 1)
      b == SpaceRun(trimmed, a)
      c == SpaceRun(trimmed, b + 1)
  IN IF \/ Len(trimmed) = 0
        \/ ~IsAlnum(Ch(trimmed, 1))
        \/ b = a
        \/ b > Len(trimmed)
        \/ Ch(trimmed, b) # "-"
        \/ c = b + 1
        \/ c > Len(trimmed)
     THEN <<>>
     ELSE LET rest == SubSeq(trimmed, c, Len(trimmed)) IN
          << [ id |-> SubSeq(trimmed, 1, a - 1),
               name |-> SubSeq(rest, 1, LazyName(rest, 1)) ] >>

RECURSIVE SplitLines(_, _)
\* output.split("\n"), from index i on
SplitLines(s, i) ==
  LET breaks == { j \in i..Len(s) : Ch(s, j) = "\n" } IN
  IF breaks = {} THEN << SubSeq(s, i, Len(s)) >>
  ELSE LET j == CHOOSE k \in breaks : \A l \in breaks : k <= l
       IN << SubSeq(s, i, j - 1) >> \o SplitLines(s, j + 1)

RECURSIVE ParseModelLines(_)
ParseModelLines(lines) ==
  IF lines = <<>> THEN <<>>
  ELSE LET trimmed == Trim(Head(lines))
           match == lineRe(trimmed)
       IN
    IF \/ trimmed = ""
       \/ StartsWithAt(trimmed, 1, "Available")
       \/ StartsWithAt(trimmed, 1, "Tip:")
       \/ match = <<>>
    THEN ParseModelLines(Tail(lines))
    ELSE LET id == Trim(match[1].id)
             known == STATIC_MODELS_MAP(id)
         IN << Def(id, Trim(match[1].name),
                   IF known # <<>> THEN known[1].reasoning
                   ELSE inferReasoning(id),
                   IF known # <<>> THEN known[1].contextWindow
                   ELSE DefaultContextWindow,
                   IF known # <<>> THEN known[1].maxTokens
                   ELSE DefaultMaxTokens) >>
            \o ParseModelLines(Tail(lines))

parseAgentModelsOutput(text) == ParseModelLines(SplitLines(text, 1))

RECURSIVE toProviderModels(_)
\* defs.map(...): the name gets " (Cursor)", the costs are 0
toProviderModels(defs) ==
  IF defs = <<>> THEN <<>>
  ELSE LET m == Head(defs) IN
    << [ id |-> m.id, name |-> m.name \o " (Cursor)",
         reasoning |-> m.reasoning, input |-> <<"text">>,
         cost |-> [input |-> 0, output |-> 0, cacheRead |-> 0,
                   cacheWrite |-> 0],
         contextWindow |-> m.contextWindow, maxTokens |-> m.maxTokens ] >>
    \o toProviderModels(Tail(defs))

(***************************************************************************)
(* runAgentModels (src/index.ts:161-202) and the entry point               *)
(* (src/index.ts:583-650).                                                 *)
(***************************************************************************)
\* The values of CURSOR_API_KEY: unset, set to the empty string, set.
ApiKeys == { <<>>, <<"">>, <<"key-1">> }

\* if (process.env["CURSOR_API_KEY"]) args.unshift("--api-key", ...)
WithApiKey(key, args) ==
  IF key # <<>> /\ key[1] # "" THEN <<"--api-key", key[1]>> \o args ELSE args

ModelsArgs(key) == WithApiKey(key, <<"models">>)

StreamArgs(key, modelId, workspacePath, prompt) ==
  WithApiKey(key, << "--print", "--output-format", "stream-json",
                     "--model", modelId, "--trust",
                     "--workspace", workspacePath, prompt >>)

LoginArgs == <<"login">>
StatusArgs == <<"status">>
LogoutArgs == <<"logout">>

Spawned(command, args) == [command |-> command, args |-> args]

\* What agent models writes to stdout, in chunks.
DiscoveryChunks ==
  { "Available models\n\n",
    "auto - Auto\n",
    "gpt-9-high - GPT 9 High  (current, default)\n",
    "Tip: use --model <id>\n" }

StreamModelIds == {"auto", "gpt-9-high"}
WorkspacePath == "/work"
Prompt == "User: hi"

DiscoverySpawnThrew == "spawn EINVAL"
TimeoutMessage ==
  "agent models timed out after " \o NatToStr(DISCOVERY_TIMEOUT_MS) \o "ms"

\* resolve / reject of a promise: the first call settles it, later calls
\* do nothing.
Settle(p, state, value) ==
  IF p.state = "pending" THEN [state |-> state, value |-> value] ELSE p

\* Every text stdout can have collected.
Stdouts ==
  { JoinChunks(chunks) :
      chunks \in UNION { [1..n -> DiscoveryChunks] : n \in 0..MaxData } }

\* parseAgentModelsOutput of each of them, computed once.
Models == [text \in Stdouts |-> parseAgentModelsOutput(text)]

\* CloseOutcome without the check for an empty list.
CloseOutcomeNoEmptyCheck(p, code, stdout, stderr) ==
  IF code # "0"
  THEN Settle(p, "rejected",
              "agent models exited with code " \o code \o ": " \o Trim(stderr))
  ELSE Settle(p, "resolved", Models[stdout])

\* The 'close' handler of runAgentModels, after clearTimeout.
CloseOutcome(p, code, stdout, stderr) ==
  IF code # "0"
  THEN Settle(p, "rejected",
              "agent models exited with code " \o code \o ": " \o Trim(stderr))
  ELSE LET models == Models[stdout] IN
    IF Len(models) = 0
    THEN Settle(p, "rejected", "agent models returned no models")
    ELSE Settle(p, "resolved", models)

\* AfterAwait without the catch.
AfterAwaitNoCatch(p) ==
  IF p.state = "resolved"
  THEN [threw |-> FALSE, modelDefs |-> p.value]
  ELSE [threw |-> TRUE, modelDefs |-> <<>>]

\* try { modelDefs = await runAgentModels(agentPath) }
\* catch { modelDefs = STATIC_MODELS }
AfterAwait(p) ==
  IF p.state = "resolved"
  THEN [threw |-> FALSE, modelDefs |-> p.value]
  ELSE [threw |-> FALSE, modelDefs |-> STATIC_MODELS]

\* The invocation, not yet called, while the extension is followed.
StreamIdle ==
  /\ pc = "init"
  /\ events = <<>>
  /\ ended = 0
  /\ output = InitialOutput
  /\ textBlockOpen = FALSE
  /\ accumulatedText = ""
  /\ stderrChunks = <<>>
  /\ aborted = FALSE
  /\ listening = FALSE
  /\ kills = 0
  /\ child = "none"
  /\ nLines = 0
  /\ fault = FALSE
  /\ last = [cb |-> "none", arg |-> ""]
  /\ delivered = <<>>

ExtInit ==
  /\ StreamIdle
  /\ SideIdle
  /\ apiKey \in ApiKeys
  /\ epc = "start"
  /\ promise = Pending
  /\ timer = "idle"
  /\ dchild = "none"
  /\ dstdout = ""
  /\ dstderr = ""
  /\ dData = 0
  /\ dkills = 0
  /\ dcode = ""
  /\ registrations = <<>>
  /\ spawns = <<>>

\* The entry point up to its await: runAgentModels spawns agent models
\* (the executable may fail to start), arms the timer, adds its listeners.
Activate ==
  /\ epc = "start"
  /\ spawns' = Append(spawns, Spawned("models", ModelsArgs(apiKey)))
  /\ \E started \in BOOLEAN :
       dchild' = IF started THEN "alive" ELSE "spawnfail"
  /\ timer' = "armed"
  /\ epc' = "awaiting"
  /\ UNCHANGED << streamVars, sideVars, apiKey, promise, dstdout, dstderr, dData,
                  dkills, dcode, registrations >>

\* spawn throws inside the executor: the promise is rejected, no timer is
\* armed, there is no child.
ActivateThrows ==
  /\ epc = "start"
  /\ promise' = Settle(promise, "rejected", DiscoverySpawnThrew)
  /\ epc' = "awaiting"
  /\ UNCHANGED << streamVars, sideVars, apiKey, timer, dchild, dstdout, dstderr, dData,
                  dkills, dcode, registrations, spawns >>

\* child.stdout.on("data", ...)
DStdout ==
  /\ dchild = "alive"
  /\ dData < MaxData
  /\ \E chunk \in DiscoveryChunks : dstdout' = dstdout \o chunk
  /\ dData' = dData + 1
  /\ UNCHANGED << streamVars, sideVars, apiKey, epc, promise, timer, dchild, dstderr,
                  dkills, dcode, registrations, spawns >>

\* child.stderr.on("data", ...)
DStderr ==
  /\ dchild = "alive"
  /\ dData < MaxData
  /\ \E chunk \in StderrChunks : dstderr' = dstderr \o chunk
  /\ dData' = dData + 1
  /\ UNCHANGED << streamVars, sideVars, apiKey, epc, promise, timer, dchild, dstdout,
                  dkills, dcode, registrations, spawns >>

\* The timer fires: child.kill("SIGTERM"), then reject.
DTimeout ==
  /\ timer = "armed"
  /\ dchild = "alive"
  /\ dkills' = dkills + 1
  /\ promise' = Settle(promise, "rejected", TimeoutMessage)
  /\ timer' = "fired"
  /\ UNCHANGED << streamVars, sideVars, apiKey, epc, dchild, dstdout, dstderr, dData,
                  dcode, registrations, spawns >>

\* The timer fires and child.kill fails: kill emits 'error', whose handler
\* rejects first; the process keeps running.
DTimeoutKillFails ==
  /\ timer = "armed"
  /\ dchild = "alive"
  /\ dkills' = dkills + 1
  /\ promise' = Settle(Settle(promise, "rejected", KillFailMessage),
                       "rejected", TimeoutMessage)
  /\ timer' = "fired"
  /\ UNCHANGED << streamVars, sideVars, apiKey, epc, dchild, dstdout, dstderr, dData,
                  dcode, registrations, spawns >>

\* 'error' of a spawn that failed: clearTimeout, reject.
DError ==
  /\ dchild = "spawnfail"
  /\ timer' = "cleared"
  /\ promise' = Settle(promise, "rejected", SpawnFailMessage)
  /\ dchild' = "failclosing"
  /\ UNCHANGED << streamVars, sideVars, apiKey, epc, dstdout, dstderr, dData, dkills,
                  dcode, registrations, spawns >>

\* DClose without clearTimeout.
DCloseNoClear ==
  /\ dchild \in {"alive", "failclosing"}
  /\ \E code \in (IF dchild = "alive" THEN ExitCodes ELSE {SpawnFailCode}) :
       /\ promise' = CloseOutcome(promise, code, dstdout, dstderr)
       /\ dcode' = code
  /\ dchild' = "closed"
  /\ UNCHANGED << streamVars, sideVars, apiKey, epc, dstdout, dstderr, dData, dkills,
                  registrations, spawns, timer >>

\* 'close': clearTimeout, then reject or resolve by code and output.
DClose ==
  /\ dchild \in {"alive", "failclosing"}
  /\ \E code \in (IF dchild = "alive" THEN ExitCodes ELSE {SpawnFailCode}) :
       /\ promise' = CloseOutcome(promise, code, dstdout, dstderr)
       /\ dcode' = code
  /\ timer' = IF timer = "armed" THEN "cleared" ELSE timer
  /\ dchild' = "closed"
  /\ UNCHANGED << streamVars, sideVars, apiKey, epc, dstdout, dstderr, dData, dkills,
                  registrations, spawns >>

\* The entry point after its await: registerProvider, registerCommand.
Register ==
  /\ epc = "awaiting"
  /\ promise.state # "pending"
  /\ LET r == AfterAwait(promise) IN
       IF r.threw
       THEN epc' = "failed" /\ UNCHANGED registrations
       ELSE /\ registrations' =
                 Append(registrations, toProviderModels(r.modelDefs))
            /\ epc' = "registered"
  /\ UNCHANGED << streamVars, sideVars, apiKey, promise, timer, dchild, dstdout,
                  dstderr, dData, dkills, dcode, spawns >>

\* The spawn of one streamCursorCli invocation (its course is Spec's).
StreamSpawn ==
  /\ epc = "registered"
  /\ Len(spawns) < MaxSpawns
  /\ \E modelId \in StreamModelIds :
       spawns' = Append(spawns,
         Spawned("stream", StreamArgs(apiKey, modelId, WorkspacePath, Prompt)))
  /\ UNCHANGED << streamVars, sideVars, apiKey, epc, promise, timer, dchild, dstdout,
                  dstderr, dData, dkills, dcode, registrations >>

\* The spawn of /cursor-login, /cursor-status, /cursor-logout.
CommandSpawn ==
  /\ epc = "registered"
  /\ Len(spawns) < MaxSpawns
  /\ \E s \in { Spawned("login", LoginArgs), Spawned("status", StatusArgs),
               Spawned("logout", LogoutArgs) } :
       spawns' = Append(spawns, s)
  /\ UNCHANGED << streamVars, sideVars, apiKey, epc, promise, timer, dchild, dstdout,
                  dstderr, dData, dkills, dcode, registrations >>

ExtNext ==
  \/ Activate
  \/ ActivateThrows
  \/ DStdout
  \/ DStderr
  \/ DTimeout
  \/ DTimeoutKillFails
  \/ DError
  \/ DClose
  \/ Register
  \/ StreamSpawn
  \/ CommandSpawn

ExtSpec == ExtInit /\ [][ExtNext]_vars

(***************************************************************************)
(* The pure functions, called on their own: the marker of a started tool   *)
(* call (src/index.ts:444-448), parseAgentModelsOutput (129-154) and       *)
(* toPiToolName (332-334).  call holds the function, its argument and the  *)
(* value it returned; each run of the specification is one call.           *)
(***************************************************************************)
MaxModelLines == 2

\* payload.args: absent, null, or a value whose rendering is short, of
\* 119, 120, 121 and 122 characters, and long.
CallMarker ==
  /\ call.fn = "none"
  /\ LET x10 == "xxxxxxxxxx"
         x50 == x10 \o x10 \o x10 \o x10 \o x10
         x150 == x50 \o x50 \o x50
     IN \E args \in
            { Undefined, JNull, JObj(<<>>), JStr("ls"),
              JArr(<< JNum("1"), JNull >>) }
            \cup { JObj(<< Member("cmd", JStr(SubSeq(x150, 1, n))) >>) :
                     n \in {0, 2, 109, 110, 111, 112, 150} } :
          call' = [ fn |-> "Marker", arg |-> args,
                    result |-> Marker(toPiToolName("shellToolCall"), args) ]
  /\ UNCHANGED << streamVars, extVars, other >>

\* The output of agent models: up to MaxModelLines lines, each ended by a
\* line feed.
CallParseAgentModelsOutput ==
  /\ call.fn = "none"
  /\ \E lines \in UNION { [1..n ->
         { "Available models",
           "",
           "auto - Auto",
           "  opus-4.6-thinking - Claude 4.6 Opus (Thinking)  (default)",
           "gpt-5.1-codex-max - GPT-5.1 Codex Max",
           "gemini-3-pro - Gemini 3 Pro  (current)",
           "gpt-9-high - GPT 9 High  (current, default)",
           "deep-thinking - Deep Thinker (current,default)",
           "new-model-max - New Max  (current)",
           "x-xhigh-fast - X (beta)",
           "not a model line",
           "-bad - Bad",
           "Tip: use --model <id> to switch" }] : n \in 0..MaxModelLines } :
       call' = [ fn |-> "parseAgentModelsOutput", arg |-> lines,
                 result |-> parseAgentModelsOutput(
                   JoinChunks([ i \in 1..Len(lines) |-> lines[i] \o "\n" ])) ]
  /\ UNCHANGED << streamVars, extVars, other >>

\* The keys of tool_call: of the table, with and without the suffix, and
\* names of members every object has.
CallToPiToolName ==
  /\ call.fn = "none"
  /\ \E cliKey \in
         { TOOL_NAME_MAP[m].key : m \in 1..Len(TOOL_NAME_MAP) }
         \cup { "mcpToolCall", "customTool", "ToolCall", "shellToolCallX",
                "fooToolCallToolCall", "toolcall", "Shell",
                "constructor", "toString", "__proto__" } :
       call' = [ fn |-> "toPiToolName", arg |-> cliKey,
                 result |-> toPiToolName(cliKey) ]
  /\ UNCHANGED << streamVars, extVars, other >>

CallInit == StreamIdle /\ ExtIdle /\ SideIdle

CallNext ==
  \/ CallMarker
  \/ CallParseAgentModelsOutput
  \/ CallToPiToolName

CallSpec == CallInit /\ [][CallNext]_vars

(***************************************************************************)
(* Vocabulary of the properties.                                           *)
(***************************************************************************)
IsTerminal(e) == e.type \in {"done", "error"}
IsTextEvent(e) == e.type \in {"text_start", "text_delta", "text_end"}
Terminals == { i \in 1..Len(events) : IsTerminal(events[i]) }
LastEvent == events[Len(events)]
NoTextAccumulated == \A i \in 1..Len(events) : events[i].type # "text_delta"
\* The callback that ran last is the close handler (the error handler).
JustClosed == last.cb = "close"
JustErrored == last.cb = "error"
\* That callback was of a process that had started (not of a failed spawn).
ProcessRan == last.arg \notin {SpawnFailMessage, SpawnFailCode}

(***************************************************************************)
(* C1: in every invocation at most one terminal event (done or error) is   *)
(* pushed and stream.end() is called at most once, also when a child      *)
(* 'error' is followed by a 'close' on the same handle.                    *)
(* The code has no latch around its two completion paths: this formula is  *)
(* violated.                                                               *)
(***************************************************************************)
C1_AtMostOneTerminal == Cardinality(Terminals) <= 1 /\ ended <= 1

(***************************************************************************)
(* C2: with the signal not fired, the close handler pushes done / stop on  *)
(* exit code 0, error / error on a non-zero code when no text was ever    *)
(* accumulated, and done / stop on a non-zero code when some text was.     *)
(***************************************************************************)
C2_ExitClassification ==
  (JustClosed /\ ~aborted) =>
    IF last.arg = "0" \/ ~NoTextAccumulated
    THEN /\ LastEvent.type = "done"
         /\ LastEvent.reason = "stop"
         /\ LastEvent.msg.stopReason = "stop"
    ELSE /\ LastEvent.type = "error"
         /\ LastEvent.reason = "error"
         /\ LastEvent.msg.stopReason = "error"

\* A process that printed text exits with a non-zero code and is reported
\* as done.
C2_Witness ==
  /\ JustClosed /\ ~aborted /\ last.arg = "1"
  /\ ~NoTextAccumulated
  /\ LastEvent.type = "done"

(***************************************************************************)
(* C3: once the signal has fired, the callback that ends the invocation,   *)
(* 'close' or 'error', pushes error with reason aborted and leaves the     *)
(* terminal state aborted, whatever the exit code and the text.            *)
(* The error handler never looks at the signal: this formula is violated.  *)
(***************************************************************************)
C3_AbortedWins ==
  ((JustClosed \/ JustErrored) /\ ProcessRan /\ aborted) =>
    /\ LastEvent.type = "error"
    /\ LastEvent.reason = "aborted"
    /\ LastEvent.msg.stopReason = "aborted"
    /\ output.stopReason = "aborted"

(***************************************************************************)
(* C4: after a terminal event has been pushed no text_start, text_delta or *)
(* text_end is pushed and the output message is not modified.              *)
(* A 'close' after an 'error', and the lines of a process that is still    *)
(* running after a failed kill, do both: this formula is violated.         *)
(***************************************************************************)
C4_FrozenAfterTerminal ==
  [][ Terminals # {} =>
        /\ output' = output
        /\ \A i \in (Len(events) + 1)..Len(events') :
             ~IsTextEvent(events'[i]) ]_vars

(***************************************************************************)
(* C5: every text_start for index N is followed by exactly one text_end    *)
(* for N, pushed before the terminal event, on every exit path.            *)
(* The error handler pushes its terminal event without closing an open     *)
(* block: this formula is violated.                                        *)
(***************************************************************************)
C5_TextEndBeforeTerminal ==
  \A i \in Terminals :
    \A j \in 1..(i - 1) :
      events[j].type = "text_start" =>
        /\ \E k \in (j + 1)..(i - 1) :
             /\ events[k].type = "text_end"
             /\ events[k].contentIndex = events[j].contentIndex
        /\ Cardinality({ k \in 1..Len(events) :
                           /\ events[k].type = "text_end"
                           /\ events[k].contentIndex = events[j].contentIndex })
             = 1

\* A fragment with a character other than whitespace.
HasInk(text) == \E i \in 1..Len(text) : ~IsTrimSpace(Ch(text, i))
InkedOnly(texts) == SelectSeq(texts, HasInk)

C7_SpawnFailure ==
  (JustErrored /\ last.arg = SpawnFailMessage) =>
    /\ LastEvent.type = "error"
    /\ LastEvent.reason = "error"
    /\ LastEvent.msg.stopReason = "error"
    /\ LastEvent.msg.errorMessage = <<SpawnFailMessage>>
    /\ \A i \in 1..Len(events) :
         events[i].type \notin {"text_start", "text_delta"}
    /\ ended = 1

C7_Witness ==
  /\ JustErrored /\ last.arg = SpawnFailMessage
  /\ child = "failclosing"
  /\ Len(events) = 2

(***************************************************************************)
(* C8: on the abnormal-exit error path (close with a non-zero code, no     *)
(* text accumulated, signal not fired) the error message is the trimmed    *)
(* standard-error text when that is not empty, and otherwise the generic   *)
(* message naming the exit code; it is never empty.                        *)
(***************************************************************************)
C8_ErrorMessage ==
  (JustClosed /\ ~aborted /\ last.arg # "0" /\ NoTextAccumulated) =>
    LET stderr == JoinChunks(stderrChunks) IN
    /\ Len(output.errorMessage) = 1
    /\ output.errorMessage[1] # ""
    /\ LastEvent.msg.errorMessage = output.errorMessage
    /\ IF HasInk(stderr)
       THEN /\ output.errorMessage[1] = Trim(stderr)
            /\ HasInk(Ch(output.errorMessage[1], 1))
            /\ HasInk(Ch(output.errorMessage[1], Len(output.errorMessage[1])))
       ELSE output.errorMessage[1] = "Cursor CLI exited with code " \o last.arg

\* Scenario B: exit code 1, "auth required" on standard error, no text.
C8_Witness ==
  /\ JustClosed /\ ~aborted /\ last.arg = "1" /\ NoTextAccumulated
  /\ stderrChunks # <<>>
  /\ output.errorMessage = <<"auth required">>

\* The lines that are blank or that JSON.parse rejects.
Undecodable ==
  { line \in Lines : ~HasInk(line) \/ ~JSONParse(Trim(line)).ok }

\* The step is the line handler's, on a line of the set.
LineStepOn(lineSet) ==
  /\ nLines' = nLines + 1
  /\ last'.cb = "line"
  /\ last'.arg \in lineSet

HandlerUntouched ==
  /\ events' = events
  /\ output' = output
  /\ textBlockOpen' = textBlockOpen
  /\ accumulatedText' = accumulatedText
  /\ fault' = fault

(***************************************************************************)
(* C9: a blank line, or a line that fails JSON decoding, produces no       *)
(* event, raises nothing and leaves the invocation state (open flag,       *)
(* accumulated text, output message) unchanged, so that later lines are    *)
(* handled as if it had not occurred.                                      *)
(***************************************************************************)
C9_BadLineSkipped ==
  [][ LineStepOn(Undecodable) => HandlerUntouched ]_vars

\* A truncated line has just arrived while a text block was open.
C9_Witness ==
  /\ last.cb = "line" /\ last.arg = "{\"type\":\"assistant\""
  /\ last.arg \in Undecodable
  /\ Undecodable = BadLines
  /\ textBlockOpen /\ accumulatedText = "Hi"
  /\ LastEvent.type = "text_delta"

(***************************************************************************)
(* C10: a line that decodes as JSON but has none of the three recognized   *)
(* shapes makes the line handler raise nothing, push nothing and change    *)
(* nothing.                                                                *)
(* The handler reads message.content, block.text and the tool_call object  *)
(* unguarded, and throws a TypeError on several of these lines: this       *)
(* formula is violated.                                                    *)
(***************************************************************************)
C10_OddLineIgnored ==
  [][ LineStepOn(OddLines) => HandlerUntouched ]_vars

(***************************************************************************)
(* Vocabulary of the properties of C11 to C20.                             *)
(***************************************************************************)
IsDelta(e) == e.type = "text_delta"
IsStart(e) == e.type = "start"
NonEmpty(text) == text # ""
\* The deltas of the text_delta events of evs, in order.
DeltaTexts(evs) ==
  LET d == SelectSeq(evs, IsDelta) IN [k \in 1..Len(d) |-> d[k].delta]
\* The events a step has pushed.
NewEvents == SubSeq(events', Len(events) + 1, Len(events'))
AssistantLines == { LineHi, LineBlankThenText, LineBlankFragment, LineTwoTexts }
SilentLines == { LineResult, LineSystem, LineShellCompleted }
ShellMarker == "\n" \o Hourglass \o " [Shell] {\"cmd\":\"ls\"}\n"
KeySet == apiKey # <<>> /\ apiKey[1] # ""

\* The step pushed, for the fragments frags of its line and in their order:
\* a text_start first iff no block was open, then one text_delta a
\* fragment, with that fragment as delta and the open block's index.
FragmentsEmitted(frags) ==
  LET new == NewEvents
      lead == IF textBlockOpen \/ frags = <<>> THEN 0 ELSE 1
  IN /\ SubSeq(events', 1, Len(events)) = events
     /\ Len(new) = lead + Len(frags)
     /\ lead = 1 =>
          /\ new[1].type = "text_start"
          /\ new[1].contentIndex = Len(output.content)
     /\ \A k \in 1..Len(frags) :
          /\ new[lead + k].type = "text_delta"
          /\ new[lead + k].delta = frags[k]
          /\ new[lead + k].contentIndex = Len(output'.content) - 1

(***************************************************************************)
(* C11: the promise of runAgentModels is rejected once the timer has fired *)
(* (child.kill having been called), after a 'close' with a non-zero code,  *)
(* and after a 'close' with code 0 whose output has no model line; it is   *)
(* resolved only by a 'close' with code 0 and at least one model, with the *)
(* parsed list; and once the timer has fired no later 'close' resolves it. *)
(***************************************************************************)
C11_DiscoveryOutcome ==
  LET models == Models[dstdout] IN
  /\ timer = "fired" => promise.state = "rejected" /\ dkills >= 1
  /\ dchild = "closed" => promise.state # "pending"
  /\ (dchild = "closed" /\ dcode # "0") => promise.state = "rejected"
  /\ (dchild = "closed" /\ Len(models) = 0) => promise.state = "rejected"
  /\ promise.state = "resolved" =>
       /\ dchild = "closed" /\ dcode = "0" /\ timer # "fired"
       /\ Len(models) >= 1
       /\ promise.value = models

\* After the timeout the process has exited with code 0 and a model list.
C11_Witness ==
  /\ timer = "fired"
  /\ dchild = "closed" /\ dcode = "0"
  /\ Len(Models[dstdout]) >= 1
  /\ promise = [state |-> "rejected", value |-> TimeoutMessage]

(***************************************************************************)
(* C12: the entry point calls registerProvider exactly once whatever the   *)
(* outcome of discovery, with the discovered list when the promise was     *)
(* resolved and with the static table when it was rejected (timeout,       *)
(* non-zero exit, empty result, spawn error); the entry point never fails, *)
(* and it goes on as soon as the promise is settled.                       *)
(***************************************************************************)
C12_RegisteredOnce ==
  /\ epc # "failed"
  /\ Len(registrations) = IF epc = "registered" THEN 1 ELSE 0
  /\ epc = "registered" =>
       /\ promise.state # "pending"
       /\ registrations[1] =
            toProviderModels(IF promise.state = "resolved"
                             THEN promise.value ELSE STATIC_MODELS)
  /\ (epc = "awaiting" /\ promise.state # "pending") => ENABLED Register

\* The static table registered after a timeout.
C12_Witness ==
  /\ epc = "registered"
  /\ timer = "fired" /\ promise.state = "rejected"
  /\ registrations = << toProviderModels(STATIC_MODELS) >>

(***************************************************************************)
(* C13: whenever the signal has fired and the subprocess is still running  *)
(* (the signal may have fired before streamCursorCli was called),          *)
(* child.kill has been called on that subprocess.                          *)
(* addEventListener on a signal that has already fired never runs onAbort, *)
(* and the code does not read signal.aborted before the spawn: this        *)
(* formula is violated.                                                    *)
(***************************************************************************)
C13_FiredMeansKilled == (aborted /\ child = "alive") => kills >= 1

(***************************************************************************)
(* C14: with CURSOR_API_KEY set, the arguments of every subprocess spawned *)
(* (streaming, agent models, login, status, logout) start with --api-key   *)
(* and the value; with it unset, no argument list contains --api-key.      *)
(* runAgentLogin, runAgentStatus and the logout command pass fixed         *)
(* argument lists: this formula is violated.                               *)
(***************************************************************************)
C14_ApiKeyForwarded ==
  \A i \in 1..Len(spawns) :
    LET args == spawns[i].args IN
    /\ KeySet => /\ Len(args) >= 2
                 /\ args[1] = "--api-key"
                 /\ args[2] = apiKey[1]
    /\ apiKey = <<>> => \A j \in 1..Len(args) : args[j] # "--api-key"

(***************************************************************************)
(* C15: the token counters and the costs of the output message are all 0   *)
(* in the message carried by every event pushed (start, text_start,        *)
(* text_delta, text_end, done, error) and in the output message itself: no *)
(* callback changes them.                                                  *)
(***************************************************************************)
C15_UsageZero ==
  /\ output.usage = ZeroUsage
  /\ \A i \in 1..Len(events) : events[i].msg.usage = ZeroUsage

\* A done event after text, every kind of text event having been pushed.
C15_Witness ==
  /\ events # <<>>
  /\ LastEvent.type = "done"
  /\ \A type \in {"start", "text_start", "text_delta", "text_end"} :
       \E i \in 1..Len(events) : events[i].type = type

(***************************************************************************)
(* C16: the events are pushed in the order of the lines that cause them:   *)
(* the deltas pushed so far are, in order, the fragments (and markers) the *)
(* lines have carried so far; and within a line a text_start comes before  *)
(* its text_delta: every text_start is directly followed by a text_delta   *)
(* of its index, and no text_delta comes before the text_start of its      *)
(* index.                                                                  *)
(***************************************************************************)
C16_EventsInLineOrder ==
  /\ DeltaTexts(events) = InkedOnly(delivered)
  /\ \A i \in 1..Len(events) :
       /\ events[i].type = "text_start" =>
            /\ i < Len(events)
            /\ events[i + 1].type = "text_delta"
            /\ events[i + 1].contentIndex = events[i].contentIndex
       /\ events[i].type = "text_delta" =>
            \E j \in 1..(i - 1) :
              /\ events[j].type = "text_start"
              /\ events[j].contentIndex = events[i].contentIndex

\* Three lines have each caused a delta, the first of them a text_start too.
C16_Witness ==
  /\ nLines = 3
  /\ delivered = << "Hi", ShellMarker, "a", "b " >>
  /\ DeltaTexts(events) = delivered
  /\ events[2].type = "text_start"

C18_MarkerIsText ==
  [][ /\ LineStepOn({LineShellStarted}) =>
           /\ FragmentsEmitted(<<ShellMarker>>)
           /\ accumulatedText' = accumulatedText \o ShellMarker
           /\ textBlockOpen'
           /\ output'.content[Len(output'.content)] =
                (IF textBlockOpen THEN output.content[Len(output.content)]
                 ELSE "") \o ShellMarker
      /\ ( /\ last'.cb = "close" /\ child = "alive"
           /\ last'.arg # "0" /\ ~aborted
           /\ delivered = <<ShellMarker>> ) =>
           /\ events'[Len(events')].type = "done"
           /\ events'[Len(events')].reason = "stop"
           /\ output'.stopReason = "stop" ]_vars

\* Scenario C, then exit code 1: done.
C18_Witness ==
  /\ last = [cb |-> "close", arg |-> "1"]
  /\ ~aborted
  /\ delivered = <<ShellMarker>>
  /\ accumulatedText = ShellMarker
  /\ LastEvent.type = "done"

(***************************************************************************)
(* C19: a line whose event is of type result, of an unrecognized type, or  *)
(* a tool_call of subtype completed makes the line handler push nothing    *)
(* and leave the open flag, the accumulated text and the output message    *)
(* as they were.                                                           *)
(***************************************************************************)
C19_SilentLines ==
  [][ LineStepOn(SilentLines) => HandlerUntouched ]_vars

\* The completed event of a tool call has arrived after its started event.
C19_Witness ==
  /\ last = [cb |-> "line", arg |-> LineShellCompleted]
  /\ textBlockOpen /\ accumulatedText = ShellMarker
  /\ LastEvent.type = "text_delta"

(***************************************************************************)
(* C20: once streamCursorCli has run its synchronous part, exactly one     *)
(* start event has been pushed, it is the first event on every path (a     *)
(* failure while the prompt is prepared or at the spawn included), it was  *)
(* pushed before the spawn, and its message has no content block.          *)
(* serializeContext and process.cwd() run before the push of start: when   *)
(* one of them throws, the catch block pushes error as the only event:     *)
(* this formula is violated.                                               *)
(***************************************************************************)
C20_StartFirst ==
  pc # "init" =>
    /\ events # <<>>
    /\ events[1].type = "start"
    /\ events[1].msg.content = <<>>
    /\ Len(SelectSeq(events, IsStart)) = 1

\* The number of events of a type pushed so far.
CountOf(evs, type) == Cardinality({ i \in 1..Len(evs) : evs[i].type = type })

(***************************************************************************)
(* C21: at most one text block is open at any point of an invocation: a    *)
(* step pushes a text_start only when the open flag was false (and sets    *)
(* it), the flag is cleared only by the 'close' callback, which pushes the  *)
(* text_end, and the text_start events pushed exceed the text_end events   *)
(* by one while the flag is set and by none otherwise.                     *)
(***************************************************************************)
C21_OneOpenBlock ==
  [][ /\ CountOf(NewEvents, "text_start") > 0 =>
           /\ ~textBlockOpen /\ textBlockOpen'
           /\ CountOf(NewEvents, "text_start") = 1
      /\ (textBlockOpen /\ ~textBlockOpen') =>
           /\ last'.cb = "close"
           /\ NewEvents[1].type = "text_end"
      /\ CountOf(NewEvents, "text_end") > 0 => (textBlockOpen /\ ~textBlockOpen')
      /\ CountOf(events', "text_start") - CountOf(events', "text_end")
           = IF textBlockOpen' THEN 1 ELSE 0 ]_vars

\* A block was opened by the first of three lines with text and closed at
\* 'close'.
C21_Witness ==
  /\ last.cb = "close"
  /\ nLines = 3 /\ Len(InkedOnly(delivered)) >= 3
  /\ CountOf(events, "text_start") = 1
  /\ CountOf(events, "text_end") = 1
  /\ ~textBlockOpen

(***************************************************************************)
(* C22: the abort listener is deregistered when the 'close' or the 'error' *)
(* callback runs: a signal that fires after a terminal event was pushed    *)
(* sends no termination signal and pushes nothing, and the step after it   *)
(* changes neither the terminal events already pushed nor the stopReason   *)
(* of the output message.                                                  *)
(* The close handler reads options.signal.aborted itself (line 475): after *)
(* the 'error' of a failed spawn, a signal that fires before the 'close'   *)
(* of the same handle turns stopReason from error to aborted and a second  *)
(* terminal event is pushed: this formula is violated.                     *)
(***************************************************************************)
C22_LateAbortInert ==
  [][ /\ (Terminals # {} /\ ~aborted /\ aborted') =>
           /\ kills' = kills
           /\ events' = events
           /\ output' = output
      /\ (Terminals # {} /\ last.cb = "abort") =>
           /\ output'.stopReason = output.stopReason
           /\ Terminals' = Terminals ]_vars

(***************************************************************************)
(* C23: the stopReason of the output message keeps its non-terminal value  *)
(* in the message carried by start, text_start, text_delta and text_end,   *)
(* changes only in a finalizing callback (close, error, catch), and once a *)
(* terminal event was pushed the terminal state is left no more.           *)
(* The non-terminal value is read here as the value the message is created *)
(* with (the code has no "running": line 362 creates it with "stop").      *)
(* The error handler of a failed kill sets error while the process runs    *)
(* on, and the close handler that follows sets aborted: this formula is    *)
(* violated.                                                               *)
(***************************************************************************)
C23_TerminalStateFinal ==
  [][ /\ \A i \in 1..Len(NewEvents) :
           ~IsTerminal(NewEvents[i]) =>
              NewEvents[i].msg.stopReason = InitialOutput.stopReason
      /\ output'.stopReason # output.stopReason =>
           last'.cb \in {"close", "error", "catch"}
      /\ Terminals # {} => output'.stopReason = output.stopReason ]_vars

(***************************************************************************)
(* C24, as stated: when the invocation has ended in stop or in aborted,    *)
(* the output message carries no error message.                            *)
(* The catch block writes error.message whatever the signal says: a setup  *)
(* that throws under an aborted signal ends in aborted with an error       *)
(* message, and this formula is violated.                                  *)
(***************************************************************************)
C24_NoMessageOnStopOrAborted ==
  (ended >= 1 /\ output.stopReason \in {"stop", "aborted"}) =>
     output.errorMessage = <<>>

(***************************************************************************)
(* C24, amended: the captured stderr reaches the output message only on    *)
(* the abnormal-exit path of the close handler.  A close handler that      *)
(* finalizes in stop or in aborted leaves errorMessage as it was, whatever *)
(* was written to stderr; on a non-zero exit with no text and no abort it  *)
(* writes the trimmed stderr, or the exit message when that is empty; the  *)
(* error handler and the catch block write the message of their error;     *)
(* no other step writes errorMessage.                                      *)
(***************************************************************************)
C24_StderrOnlyOnErrorExit ==
  [][ LET stderr == Trim(JoinChunks(stderrChunks))
          closing == child # "closed" /\ child' = "closed"
          failing == last'.cb = "error" /\ ended' = ended + 1
          catching == pc = "init" /\ pc' = "caught"
      IN
      /\ closing =>
           IF ~aborted /\ last'.arg # "0" /\ accumulatedText = ""
           THEN /\ output'.stopReason = "error"
                /\ output'.errorMessage =
                     << IF stderr # "" THEN stderr
                        ELSE "Cursor CLI exited with code " \o last'.arg >>
           ELSE /\ output'.stopReason \in {"stop", "aborted"}
                /\ output'.errorMessage = output.errorMessage
      /\ failing => output'.errorMessage = << last'.arg >>
      /\ catching => output'.errorMessage = << SetupFaultMessage >>
      /\ ~(closing \/ failing \/ catching) =>
           output'.errorMessage = output.errorMessage ]_vars

\* An aborted invocation whose process wrote to stderr and was closed: no
\* error message.
C24_Witness ==
  /\ last.cb = "close"
  /\ output.stopReason = "aborted"
  /\ Trim(JoinChunks(stderrChunks)) # ""
  /\ output.errorMessage = <<>>

(***************************************************************************)
(* C25: under fair delivery of the callbacks, every invocation whose       *)
(* subprocess delivers 'close' or 'error', or whose setup throws,          *)
(* eventually has pushed a terminal event and ended the stream.  (An       *)
(* exception thrown by the line listener is no delivery of either: no      *)
(* callback of that invocation runs after it.)                             *)
(***************************************************************************)
C25_EventuallyTerminal ==
  [](pc # "init" => <>(fault \/ (Terminals # {} /\ ended >= 1)))

\* The stream ended by the close handler after lines were read.
C25_Witness ==
  /\ last.cb = "close"
  /\ nLines >= 1
  /\ Terminals # {} /\ ended >= 1
  /\ ~fault

(***************************************************************************)
(* C26: the arguments rendered in a tool marker are the JSON rendering of  *)
(* the arguments (of an empty object when args is absent or null) when     *)
(* that rendering has at most 120 characters, and otherwise its first 120  *)
(* characters followed by one ellipsis; the rendered part never exceeds    *)
(* 121 characters.                                                         *)
(***************************************************************************)
C26_Prefix == "\n" \o Hourglass \o " [Shell] "

\* The JSON rendering of the arguments of the model, written out.
C26_Json(args) ==
  CASE args.k \in {"undefined", "null"} -> "{}"
    [] args.k = "str" -> "\"" \o args.v \o "\""
    [] args.k = "arr" -> "[1,null]"
    [] args.k = "obj" ->
         IF args.v = <<>> THEN "{}"
         ELSE "{\"cmd\":\"" \o args.v[1].val.v \o "\"}"

C26_RenderedArgs ==
  call.fn = "Marker" =>
    LET json == C26_Json(call.arg)
        n == Len(call.result)
        rendered == SubSeq(call.result, Len(C26_Prefix) + 1, n - 1)
    IN /\ SubSeq(call.result, 1, Len(C26_Prefix)) = C26_Prefix
       /\ SubSeq(call.result, n, n) = "\n"
       /\ rendered = IF Len(json) <= 120 THEN json
                     ELSE SubSeq(json, 1, 120) \o Ellipsis
       /\ Len(rendered) <= 121

\* A rendering of 121 characters, cut to 120 and the ellipsis.
C26_Witness ==
  /\ call.fn = "Marker"
  /\ Len(C26_Json(call.arg)) = 121
  /\ Len(call.result) = Len(C26_Prefix) + 121 + 1
  /\ SubSeq(call.result, Len(call.result) - 1, Len(call.result) - 1) = Ellipsis

(***************************************************************************)
(* C27: parseAgentModelsOutput yields one definition per line of the form  *)
(* "<identifier> - <display name>" with an optional trailing status        *)
(* marker, in the order of the output, and skips the header, the tip and   *)
(* the lines of another form; an identifier of the static table takes the  *)
(* table's reasoning flag, context window and max tokens, any other takes  *)
(* 200000 and 32768 and is a reasoning model exactly when it ends in       *)
(* -thinking, -high, -xhigh or -max-high.                                  *)
(***************************************************************************)
\* What each line of the model is to yield, written out.
C27_Expected(line) ==
  CASE line = "auto - Auto" ->
         << Def("auto", "Auto", FALSE, 200000, 32768) >>
    [] line = "  opus-4.6-thinking - Claude 4.6 Opus (Thinking)  (default)" ->
         << Def("opus-4.6-thinking", "Claude 4.6 Opus (Thinking)", TRUE,
                200000, 32000) >>
    [] line = "gpt-5.1-codex-max - GPT-5.1 Codex Max" ->
         << Def("gpt-5.1-codex-max", "GPT-5.1 Codex Max", TRUE,
                200000, 32768) >>
    [] line = "gemini-3-pro - Gemini 3 Pro  (current)" ->
         << Def("gemini-3-pro", "Gemini 3 Pro", FALSE, 1000000, 65536) >>
    [] line = "gpt-9-high - GPT 9 High  (current, default)" ->
         << Def("gpt-9-high", "GPT 9 High", TRUE, 200000, 32768) >>
    [] line = "deep-thinking - Deep Thinker (current,default)" ->
         << Def("deep-thinking", "Deep Thinker", TRUE, 200000, 32768) >>
    [] line = "new-model-max - New Max  (current)" ->
         << Def("new-model-max", "New Max", FALSE, 200000, 32768) >>
    [] line = "x-xhigh-fast - X (beta)" ->
         << Def("x-xhigh-fast", "X (beta)", FALSE, 200000, 32768) >>
    [] OTHER -> <<>>

RECURSIVE C27_ExpectedOf(_)
C27_ExpectedOf(lines) ==
  IF lines = <<>> THEN <<>>
  ELSE C27_Expected(Head(lines)) \o C27_ExpectedOf(Tail(lines))

C28_Table ==
  { <<"shellToolCall", "Shell">>, <<"readToolCall", "Read">>,
    <<"editToolCall", "Edit">>, <<"writeToolCall", "Write">>,
    <<"deleteToolCall", "Delete">>, <<"grepToolCall", "Grep">>,
    <<"globToolCall", "Glob">>, <<"lsToolCall", "Ls">>,
    <<"todoToolCall", "Todo">>, <<"updateTodosToolCall", "UpdateTodos">>,
    <<"findToolCall", "Find">>, <<"webFetchToolCall", "WebFetch">>,
    <<"webSearchToolCall", "WebSearch">> }

C28_NameOfKey ==
  call.fn = "toPiToolName" =>
    LET key == call.arg
        rows == { row \in C28_Table : row[1] = key }
        name == IF rows # {} THEN (CHOOSE row \in rows : TRUE)[2]
                ELSE IF EndsWith(key, "ToolCall")
                THEN SubSeq(key, 1, Len(key) - Len("ToolCall"))
                ELSE key
    IN call.result.k = "str" /\ call.result.v = name

(***************************************************************************)
(* C29: two invocations of streamCursorCli whose callbacks interleave do   *)
(* not affect each other: under every interleaving the events, the output  *)
(* message, the open flag, the accumulated text and the terminal state of  *)
(* each are those its own callbacks give it: the deltas and the text are   *)
(* those of the fragments delivered to it, the block is open between its   *)
(* own text_start and text_end, and it is aborted or killed only by its    *)
(* own signal.                                                             *)
(***************************************************************************)
\* The invocation whose callbacks run, as a record like other.
C29_Running ==
  [ pc |-> pc, events |-> events, ended |-> ended, output |-> output,
    textBlockOpen |-> textBlockOpen, accumulatedText |-> accumulatedText,
    stderrChunks |-> stderrChunks, aborted |-> aborted,
    listening |-> listening, kills |-> kills, child |-> child,
    nLines |-> nLines, fault |-> fault, last |-> last,
    delivered |-> delivered ]

C29_Own(inv) ==
  LET texts == InkedOnly(inv.delivered)
      evs == inv.events
  IN
  /\ DeltaTexts(evs) = texts
  /\ inv.accumulatedText = JoinChunks(texts)
  /\ inv.output.content =
       IF texts = <<>> THEN <<>> ELSE << inv.accumulatedText >>
  /\ inv.textBlockOpen =
       (CountOf(evs, "text_start") > CountOf(evs, "text_end"))
  /\ \A i \in 1..Len(evs) :
       /\ evs[i].type = "text_end" => evs[i].content = inv.accumulatedText
       /\ evs[i].reason = "aborted" => inv.aborted
  /\ inv.output.stopReason = "aborted" => inv.aborted
  /\ inv.kills > 0 => inv.aborted
  /\ inv.ended > 0 <=> \E i \in 1..Len(evs) : IsTerminal(evs[i])
  /\ inv.pc = "init" => inv = Uncalled(inv.aborted)

C29_Isolated == C29_Own(C29_Running) /\ C29_Own(other)

\* Both invocations have ended after their callbacks interleaved, one of
\* them aborted, with different texts.
C29_Witness ==
  /\ pc = "resolved" /\ other.pc = "resolved"
  /\ last.cb = "close" /\ other.last.cb = "close"
  /\ aborted /\ ~other.aborted
  /\ delivered = << "Hi" >> /\ other.delivered = << ShellMarker >>
  /\ other.accumulatedText = ShellMarker /\ accumulatedText = "Hi"

(***************************************************************************)
(* C30: the reason of every terminal event agrees with the output message  *)
(* it carries: done with stopReason stop and no error message, error with  *)
(* reason aborted with stopReason aborted, error with reason error with    *)
(* stopReason error and a non-empty error message; also when 'close' runs  *)
(* after 'error'.  An event carries the output object itself, so what it   *)
(* carries is the message as pushed and as it is from then on.             *)
(* Each event agrees with the message as it is pushed.  A close handler    *)
(* that runs after the error handler under an aborted signal sets          *)
(* stopReason to aborted in the message the earlier event, of reason       *)
(* error, carries: this formula is violated.                               *)
(***************************************************************************)
C30_Agrees(e, msg) ==
  /\ e.type = "done" =>
       /\ e.reason = "stop"
       /\ msg.stopReason = "stop"
       /\ msg.errorMessage = <<>>
  /\ (e.type = "error" /\ e.reason = "aborted") =>
       msg.stopReason = "aborted"
  /\ (e.type = "error" /\ e.reason # "aborted") =>
       /\ e.reason = "error"
       /\ msg.stopReason = "error"
       /\ msg.errorMessage # <<>>
       /\ msg.errorMessage # <<"">>

C30_ReasonAgrees ==
  \A i \in Terminals :
    /\ C30_Agrees(events[i], events[i].msg)
    /\ C30_Agrees(events[i], output)

(***************************************************************************)
(* C31: an invocation creates at most one text block: the output message   *)
(* never holds more than one content block, every fragment and every tool  *)
(* marker is appended to that block (index 0), whenever the block exists   *)
(* its text is the accumulated text, and the content of text_end is the    *)
(* text of the block it closes.                                            *)
(***************************************************************************)
C31_OneTextBlock ==
  /\ Len(output.content) <= 1
  /\ output.content # <<>> =>
       /\ output.content[1] = accumulatedText
       /\ output.content[1] = JoinChunks(DeltaTexts(events))
  /\ output.content = <<>> => accumulatedText = ""
  /\ \A i \in 1..Len(events) :
       /\ IsTextEvent(events[i]) =>
            /\ events[i].contentIndex = 0
            /\ Len(events[i].msg.content) = 1
       /\ events[i].type = "text_end" =>
            /\ events[i].content = events[i].msg.content[1]
            /\ events[i].content = output.content[1]

\* Closed after a text and a tool marker went into the one block.
C31_Witness ==
  /\ last.cb = "close"
  /\ delivered = << "Hi", ShellMarker >>
  /\ output.content = << "Hi" \o ShellMarker >>
  /\ \E i \in 1..Len(events) : events[i].type = "text_end"

(***************************************************************************)
(* C32: a fault raised synchronously while the prompt is prepared or the   *)
(* subprocess is spawned is not thrown to the caller of streamCursorCli:   *)
(* the call returns, the stream has received exactly one terminal event,   *)
(* an error event whose reason and stopReason are aborted when the signal  *)
(* had fired and error otherwise, whose message carries the fault's        *)
(* message, and the stream was ended once; nothing is pushed afterwards.   *)
(***************************************************************************)
C32_SetupFaultReported ==
  /\ pc = "caught" =>
       /\ ~fault
       /\ ended = 1
       /\ Cardinality(Terminals) = 1
       /\ LastEvent.type = "error"
       /\ LastEvent.reason = LastEvent.msg.stopReason
       /\ LastEvent.msg.errorMessage = << SetupFaultMessage >>
       /\ LastEvent.msg = output
       /\ output.stopReason \in {"aborted", "error"}
       /\ Len(events) \in {1, 2}
       /\ Len(events) = 2 => events[1].type = "start"
       /\ kills = 0 /\ child = "none"
  /\ last.cb = "catch" =>
       /\ pc = "caught"
       /\ output.stopReason = IF aborted THEN "aborted" ELSE "error"

\* spawn has thrown under a signal that had fired.
C32_Witness ==
  /\ pc = "caught"
  /\ last = [cb |-> "catch", arg |-> "spawn"]
  /\ aborted
  /\ events # <<>> /\ LastEvent.reason = "aborted"

(***************************************************************************)
(* C33: in runAgentModels the timer is cancelled as soon as the 'close' or *)
(* the 'error' callback of the subprocess runs: once either has run the    *)
(* timer is not armed and fires no more, the termination signal is sent    *)
(* only by the timer firing, to a subprocess that has not closed, and at   *)
(* most once in a discovery call.                                          *)
(***************************************************************************)
C33_TimerCancelled ==
  [][ /\ dchild' \in {"failclosing", "closed"} => timer' # "armed"
      /\ timer \in {"cleared", "fired"} =>
           /\ timer' = timer
           /\ dkills' = dkills
      /\ dkills' # dkills =>
           /\ dkills' = 1
           /\ dchild = "alive"
           /\ timer = "armed" /\ timer' = "fired" ]_vars

\* The timer has fired and sent its signal; the subprocess has closed since.
C33_Witness ==
  /\ timer = "fired"
  /\ dkills = 1
  /\ dchild = "closed"

=============================================================================
